---------------------------- MODULE Spec2Model ----------------------------
(***************************************************************************)
(* Peer-to-peer file transfer of the chat application: the hook            *)
(* useWebRTCFileTransfer (src/hooks/useWebRTCFileTransfer.ts) running at   *)
(* two endpoints, the signaling relay between them, the browser's peer     *)
(* connection and data channel, and the chunked transfer protocol on top.  *)
(*                                                                         *)
(* React state (connectionState, isChannelReady) is kept twice: the value  *)
(* last handed to the setter, and the value the callbacks of the last      *)
(* render closed over (rendered).  Refs (peerConnection, dataChannel,      *)
(* sendQueue, receivingFiles, isInitiator) have one value.                 *)
(***************************************************************************)
EXTENDS Integers, Sequences, FiniteSets, TLC

\* ------------------------------------------------------------- bounds
\* Files handed to queueFile in the queue and liveness scenarios.
MaxFiles == 2
\* Files handed to queueFile in the transfer scenario.
MaxSent == 1
\* Direct establishConnection calls by the application, per endpoint.
MaxEstablish == 1
\* Faults injected: transport 'failed' / 'disconnected' reports, channel
\* errors, read errors, a send that throws.
MaxFaults == 1
\* Signaling messages the relay delivers twice.
MaxDups == 1
\* Frames an arbitrary remote sender puts on the channel.
MaxFrames == 4
\* ICE candidates the peer sends.
MaxCands == 3
\* Session descriptions (offers, answers) the peer sends in a call.
MaxDescriptions == 2
MaxCleanups == 2
MaxStrays == 2

\* ---------------------------------------------------- program constants
\* CHUNK_SIZE, scaled from 16384 bytes to 2 bytes.
CHUNK_SIZE == 2
\* The size cap 10 * 1024 * 1024 of queueFile, scaled to 3 bytes.
SIZE_CAP == 3
\* The bufferedAmount threshold of the chunk loop (65536 in the source,
\* four chunks; here two).
BUFFER_THRESHOLD == 4
\* The length of a control frame's JSON text (some dozens of bytes in the
\* source, far below the threshold).
CONTROL_BYTES == 1

E == {1, 2}
Other(e) == 3 - e

\* Sizes of the files offered to queueFile: empty, one short chunk, one full
\* chunk plus a short one (the cap), and one byte over the cap.
FileSizes == {0, 1, SIZE_CAP, SIZE_CAP + 1}

\* The two user ids, as strings of UTF-16 code units: "1" and "2", "10" and
\* "2" (numbers that compare the other way round as strings), "2" and "1".
IdPairs == { <<<<49>>, <<50>>>>, <<<<49, 48>>, <<50>>>>, <<<<50>>, <<49>>>> }

\* ------------------------------------------------------------ helpers
Min(a, b) == IF a < b THEN a ELSE b

RECURSIVE StrLess(_, _)
\* JavaScript's a < b on two strings: code unit by code unit, a proper prefix
\* is smaller.
StrLess(a, b) ==
    IF b = <<>> THEN FALSE
    ELSE IF a = <<>> THEN TRUE
    ELSE IF a[1] # b[1] THEN a[1] < b[1]
    ELSE StrLess(Tail(a), Tail(b))

RECURSIVE SumLen(_)
\* chunks.reduce((acc, chunk) => acc + chunk.byteLength, 0)
SumLen(chunks) ==
    IF chunks = <<>> THEN 0 ELSE Len(Head(chunks)) + SumLen(Tail(chunks))

RECURSIVE Concat(_)
\* new Blob(chunks): the chunks one after the other.
Concat(chunks) ==
    IF chunks = <<>> THEN <<>> ELSE Head(chunks) \o Concat(Tail(chunks))

\* Math.round((x / size) * 100); 0/0 is NaN and x/0 is Infinity.
NaN == 0 - 1
Infinity == 0 - 2
Percentage(x, size) ==
    IF size = 0 THEN (IF x = 0 THEN NaN ELSE Infinity)
    ELSE (200 * x + size) \div (2 * size)

\* The generated fileId of the k-th file: `${Date.now()}_${random}` is a
\* fresh ASCII string; here "1", "22", "333", ...
FileIdOf(k) == [i \in 1..k |-> 48 + k]

RECURSIVE TextEncode(_)
\* new TextEncoder().encode(s), for code units below 2048.
TextEncode(s) ==
    IF s = <<>> THEN <<>>
    ELSE (IF s[1] < 128 THEN <<s[1]>>
          ELSE <<192 + (s[1] \div 64), 128 + (s[1] % 64)>>) \o TextEncode(Tail(s))

RECURSIVE TextDecode(_)
\* new TextDecoder().decode(bytes), for the same range.
TextDecode(b) ==
    IF b = <<>> THEN <<>>
    ELSE IF b[1] < 128 \/ Len(b) = 1 THEN <<b[1]>> \o TextDecode(Tail(b))
    ELSE <<(b[1] - 192) * 64 + (b[2] - 128)>> \o TextDecode(Tail(Tail(b)))

\* A chunk frame whose first byte counts the id's code units, not its bytes.
EncodeChunkCountsUnits(fileId, chunk) ==
    <<Len(fileId) % 256>> \o TextEncode(fileId) \o chunk

\* The chunk frame: [1 byte id length][id bytes][payload].
EncodeChunk(fileId, chunk) ==
    LET idBytes == TextEncode(fileId)
    IN  <<Len(idBytes) % 256>> \o idBytes \o chunk

\* getUint8(0) on an empty buffer and new Uint8Array(buffer, 1, n) with
\* more than the bytes behind offset 1 throw a RangeError: the handler ends
\* there, before it has touched anything.
DecodeThrows(data) == data = <<>> \/ 1 + data[1] > Len(data)

DecodeFileId(data) == TextDecode(SubSeq(data, 2, 1 + data[1]))
DecodePayload(data) == SubSeq(data, 2 + data[1], Len(data))

\* The bytes of file k of size s: every position has its own value.
FileBytes(k, s) == [i \in 1..s |-> 10 * k + i]
\* A slice that takes all the bytes left.
SliceToEnd(bytes, offset) == SubSeq(bytes, offset + 1, Len(bytes))

\* file.slice(offset, offset + CHUNK_SIZE)
Slice(bytes, offset) == SubSeq(bytes, offset + 1, Min(offset + CHUNK_SIZE, Len(bytes)))

\* File k: name, MIME type, lastModified, and the caller's metadata.
FileName(k) == 100 + k
FileType(k) == 200 + k
FileLastModified(k) == 300 + k
CallerMeta(k) == 400 + k

MetaOf(k, s) ==
    [messageId |-> CallerMeta(k), name |-> FileName(k), size |-> s,
     type |-> FileType(k), lastModified |-> FileLastModified(k)]
NoMeta == [messageId |-> 0, name |-> 0, size |-> 0, type |-> 0, lastModified |-> 0]

FileStartFrame(id, meta) ==
    [kind |-> "file-start", fileId |-> id, metadata |-> meta, data |-> <<>>]
FileEndFrame(id) ==
    [kind |-> "file-end", fileId |-> id, metadata |-> NoMeta, data |-> <<>>]
ChunkFrame(id, chunk) ==
    [kind |-> "binary", fileId |-> <<>>, metadata |-> NoMeta, data |-> EncodeChunk(id, chunk)]

Progress(name, size, transferred, percentage, status, direction) ==
    [fileName |-> name, fileSize |-> size, transferred |-> transferred,
     percentage |-> percentage, status |-> status, direction |-> direction]

\* map.set(key, value) and map.delete(key) on a Map kept as a function.
MapSet(m, k, v) == [x \in (DOMAIN m) \cup {k} |-> IF x = k THEN v ELSE m[x]]
MapDelete(m, k) == [x \in (DOMAIN m) \ {k} |-> m[x]]
EmptyMap == [x \in {} |-> 0]

\* ------------------------------------------------------------- state
VARIABLES
    ids,              \* currentUserId of each endpoint (otherUserId is the other's)
    connectionState,  \* useState: 'disconnected' | 'connecting' | 'connected' | 'failed'
    isChannelReady,   \* useState
    rendered,         \* what the callbacks of the last render closed over
    pc,               \* peerConnection.current and the browser's state of it
    pcGen,            \* RTCPeerConnections constructed so far, per endpoint
    dataChannel,      \* dataChannel.current: the index of a channel, 0 for null
    chans,            \* the data channels created so far
    sendQueue,        \* sendQueue.current
    isInitiator,      \* isInitiator.current
    receivingFiles,   \* receivingFiles.current
    transferProgress, \* useState: the TransferRecords by fileId
    files,            \* the files handed to queueFile so far
    tasks,            \* the sendFile invocation of each file
    pending,          \* continuations and timers not yet run, per endpoint
    net,              \* signaling messages in flight to each endpoint
    received,         \* the onFileReceived calls, per endpoint
    budget,           \* what the application and the environment may still do
    hist,             \* observations for the properties (no effect on the program)
    call              \* the call hook useWebRTC at one endpoint

vars == <<call, ids, connectionState, isChannelReady, rendered, pc, pcGen, dataChannel,
          chans, sendQueue, isInitiator, receivingFiles, transferProgress, files,
          tasks, pending, net, received, budget, hist>>

NoPc ==
    [gen |-> 0, state |-> "closed", sig |-> "stable", local |-> FALSE, remote |-> 0,
     iceRestarts |-> 0]
NewPc(g) ==
    [gen |-> g, state |-> "new", sig |-> "stable", local |-> FALSE, remote |-> 0,
     iceRestarts |-> 0]

NoTask == [st |-> "none", offset |-> 0, via |-> "queue"]
NoFile == [owner |-> 0, size |-> 0, returned |-> FALSE]

NoPending == [offers |-> <<>>, cooldown |-> 0, processNext |-> 0, reset |-> FALSE]

\* Per endpoint: establishConnection bodies run, data channels created, offers
\* emitted, offer creations that threw, the frames handled in arrival order,
\* and the peer's ICE candidates handed to addIceCandidate and dropped.
NoHist == [passed |-> [e \in E |-> 0], created |-> [e \in E |-> 0],
           offers |-> [e \in E |-> 0], threw |-> [e \in E |-> 0],
           arrived |-> [e \in E |-> <<>>],
           applied |-> [e \in E |-> 0], dropped |-> [e \in E |-> 0]]

\* The call hook before initializePeerConnection: no peer connection (pc 0),
\* an empty iceCandidateQueue.  remote: remoteDescription is set; setting:
\* setRemoteDescription calls not yet settled; drains: drain loops waiting
\* in an await; enqueued, attempts, discarded: what happened to the
\* candidates of the current peer connection, in order.
NoCall ==
    [pc |-> 0, gens |-> 0, remote |-> FALSE, iceCandidateQueue |-> <<>>, setting |-> 0,
     drains |-> 0, enqueued |-> <<>>, attempts |-> <<>>, discarded |-> <<>>]

InitCommon ==
    /\ call = NoCall
    /\ connectionState = [e \in E |-> "disconnected"]
    /\ isChannelReady = [e \in E |-> FALSE]
    /\ rendered = [e \in E |-> [cs |-> "disconnected", ready |-> FALSE]]
    /\ pc = [e \in E |-> NoPc]
    /\ pcGen = [e \in E |-> 0]
    /\ dataChannel = [e \in E |-> 0]
    /\ chans = <<>>
    /\ sendQueue = [e \in E |-> <<>>]
    /\ isInitiator = [e \in E |-> FALSE]
    /\ receivingFiles = [e \in E |-> EmptyMap]
    /\ transferProgress = [e \in E |-> EmptyMap]
    /\ files = <<>>
    /\ tasks = <<>>
    /\ net = [e \in E |-> <<>>]
    /\ received = [e \in E |-> <<>>]
    /\ hist = NoHist


\* --------------------------------------------------- the data channel
\* A channel created by endpoint init on its peer connection gen.  st is the
\* readyState seen at each end ("none": not announced there yet; "closing":
\* closed locally, close event not dispatched yet), cap the isChannelReady the
\* processSendQueue of its onopen handler closed over, log the frames each end
\* has sent on it, rcv how many of the other end's frames were delivered,
\* bufferedAmount the bytes each end has handed to send() that the transport
\* has not taken yet.
NewChan(e, g, cap) ==
    [init |-> e, gen |-> g, rgen |-> 0,
     st |-> [x \in E |-> IF x = e THEN "connecting" ELSE "none"],
     cap |-> cap, log |-> [x \in E |-> <<>>], rcv |-> [x \in E |-> 0],
     bufferedAmount |-> [x \in E |-> 0]]

\* The pc generation a channel lives on at endpoint e.
ChanGen(ch, e) == IF e = ch.init THEN ch.gen ELSE ch.rgen

\* A readiness test that also accepts a channel that is still connecting.
OpenInOrConnecting(base, e) ==
    dataChannel[e] # 0 /\ base[dataChannel[e]].st[e] \in {"open", "connecting"}

\* dataChannel.current && dataChannel.current.readyState === "open", on a
\* value of the channels
OpenIn(base, e) == dataChannel[e] # 0 /\ base[dataChannel[e]].st[e] = "open"
ChannelIsOpen(e) == OpenIn(chans, e)

\* The bytes send(frame) adds to bufferedAmount: the length of a binary
\* frame, CONTROL_BYTES for the JSON text of a control frame.
FrameBytes(frame) == IF frame.kind = "binary" THEN Len(frame.data) ELSE CONTROL_BYTES

\* dataChannel.current.send(frame), on a value of the channels
Send(base, e, frame) ==
    [base EXCEPT ![dataChannel[e]].log[e] = Append(@, frame),
                 ![dataChannel[e]].bufferedAmount[e] = @ + FrameBytes(frame)]

\* The transport takes the bytes buffered at end e of channel c.
BufferDrained(c, e) ==
    /\ chans[c].bufferedAmount[e] > 0
    /\ chans' = [chans EXCEPT ![c].bufferedAmount[e] = 0]
    /\ UNCHANGED <<call, ids, connectionState, isChannelReady, rendered, pc, pcGen,
                   dataChannel, sendQueue, isInitiator, receivingFiles, transferProgress,
                   files, tasks, pending, net, received, budget, hist>>

\* pc.close() and dataChannel.close() at endpoint e: the readyState of every
\* channel of the closed connection leaves "open" at once, its close event is
\* yet to be dispatched.
CloseChannelsOf(base, e, g) ==
    [c \in DOMAIN base |->
        IF ChanGen(base[c], e) = g /\ g # 0 /\ base[c].st[e] \in {"connecting", "open"}
        THEN [base[c] EXCEPT !.st[e] = "closing"]
        ELSE base[c]]

\* The two peer connections are each other's remote: the answer one applied
\* came from the other, for its offer.
Paired(e) ==
    /\ pc[e].gen # 0 /\ pc[Other(e)].gen # 0
    /\ pc[e].local /\ pc[Other(e)].local
    /\ pc[e].remote = pc[Other(e)].gen
    /\ pc[Other(e)].remote = pc[e].gen

\* ---------------------------------------------------------- sendFile
\* The synchronous part of sendFile(file k of size s) at endpoint e, on a
\* value of the channels: false when the channel is not open; else file-start, the first
\* progress record, and the first readNextChunk (file-end at once for an
\* empty file).  throws: the send of file-start throws and the catch block
\* reports the failure.
SendFileOk(base, e, throws) == OpenIn(base, e) /\ ~throws

SendFileChans(base, e, k, s, throws) ==
    LET id == FileIdOf(k)
        started == Send(base, e, FileStartFrame(id, MetaOf(k, s)))
    IN  IF ~SendFileOk(base, e, throws) THEN base
        ELSE IF 0 >= s THEN Send(started, e, FileEndFrame(id))
        ELSE started

SendFileProgress(base, e, k, s, throws) ==
    LET id == FileIdOf(k)
    IN  IF ~OpenIn(base, e) THEN transferProgress
        ELSE IF throws
        THEN [transferProgress EXCEPT ![e] =
                 MapSet(@, id, Progress(FileName(k), s, 0, 0, "failed", "sending"))]
        ELSE IF 0 >= s
        THEN [transferProgress EXCEPT ![e] =
                 MapSet(@, id, Progress(FileName(k), s, s, 100, "completed", "sending"))]
        ELSE [transferProgress EXCEPT ![e] =
                 MapSet(@, id, Progress(FileName(k), s, 0, 0, "transferring", "sending"))]

\* The sendFile invocation as it stands after the synchronous part; via tells
\* whether queueFile called it directly or processNext took it from the queue.
SendFileTask(base, e, via, s, throws) ==
    IF ~OpenIn(base, e) THEN [st |-> "refused", offset |-> 0, via |-> via]
    ELSE IF throws THEN [st |-> "threw", offset |-> 0, via |-> via]
    ELSE IF 0 >= s THEN [st |-> "done", offset |-> 0, via |-> via]
    ELSE [st |-> "reading", offset |-> 0, via |-> via]

\* Whether the send of file-start may throw here: only a send that happens
\* can, and the faults are bounded.
MayThrow(base, e) == IF OpenIn(base, e) /\ budget.faults > 0 THEN BOOLEAN ELSE {FALSE}

\* The offset advanced by the nominal chunk size instead of the bytes read.
NextOffsetNominal(offset, chunk) == offset + CHUNK_SIZE

\* offset += chunk.byteLength
NextOffset(offset, chunk) == offset + Len(chunk)

\* reader.onload of file k: the chunk is framed and sent on the channel that
\* is current now, the offset advances by the chunk's length and the next
\* readNextChunk is scheduled, 1 ms later or, with bufferedAmount at or above
\* the threshold, 10 ms later (the timer does not look at bufferedAmount
\* again); with no open channel the record is marked failed.
ReadLoaded(k) ==
    LET e == files[k].owner
        id == FileIdOf(k)
        s == files[k].size
        chunk == Slice(FileBytes(k, s), tasks[k].offset)
        offset == NextOffset(tasks[k].offset, chunk)
    IN  /\ tasks[k].st = "reading"
        /\ IF ChannelIsOpen(e)
           THEN /\ chans' = Send(chans, e, ChunkFrame(id, chunk))
                /\ tasks' = [tasks EXCEPT ![k].st = "timer", ![k].offset = NextOffset(@, chunk)]
                /\ transferProgress' = [transferProgress EXCEPT ![e] =
                      MapSet(@, id, Progress(FileName(k), s, offset, Percentage(offset, s),
                                             "transferring", "sending"))]
           ELSE /\ chans' = chans
                /\ tasks' = [tasks EXCEPT ![k].st = "done"]
                /\ transferProgress' = [transferProgress EXCEPT ![e] =
                      MapSet(@, id, Progress(FileName(k), s, tasks[k].offset,
                                             Percentage(tasks[k].offset, s),
                                             "failed", "sending"))]
        /\ UNCHANGED <<call, ids, connectionState, isChannelReady, rendered, pc, pcGen,
                       dataChannel, sendQueue, isInitiator, receivingFiles, files,
                       pending, net, received, budget, hist>>

\* A read error after which the next read is scheduled all the same.
TaskAfterErrorRetries(task) == [task EXCEPT !.st = "timer"]

\* The sendFile invocation after reader.onerror: nothing is scheduled.
TaskAfterError(task) == [task EXCEPT !.st = "done"]

\* reader.onerror of file k: the record is marked failed and nothing more is
\* scheduled.
ReadError(k) ==
    LET e == files[k].owner
        s == files[k].size
    IN  /\ tasks[k].st = "reading"
        /\ budget.faults > 0
        /\ budget' = [budget EXCEPT !.faults = @ - 1]
        /\ tasks' = [tasks EXCEPT ![k] = TaskAfterError(@)]
        /\ transferProgress' = [transferProgress EXCEPT ![e] =
              MapSet(@, FileIdOf(k), Progress(FileName(k), s, tasks[k].offset,
                                              Percentage(tasks[k].offset, s),
                                              "failed", "sending"))]
        /\ UNCHANGED <<call, ids, connectionState, isChannelReady, rendered, pc, pcGen,
                       dataChannel, chans, sendQueue, isInitiator, receivingFiles,
                       files, pending, net, received, hist>>

\* readNextChunk of file k, run by the timer set after a chunk: past the end
\* it sends file-end and reports completed if the current channel is open (and
\* does nothing if it is not); otherwise it starts the read of the next slice.
ReadNextChunk(k) ==
    LET e == files[k].owner
        id == FileIdOf(k)
        s == files[k].size
    IN  /\ tasks[k].st = "timer"
        /\ IF tasks[k].offset >= s
           THEN /\ tasks' = [tasks EXCEPT ![k].st = "done"]
                /\ IF ChannelIsOpen(e)
                   THEN /\ chans' = Send(chans, e, FileEndFrame(id))
                        /\ transferProgress' = [transferProgress EXCEPT ![e] =
                              MapSet(@, id, Progress(FileName(k), s, s, 100,
                                                     "completed", "sending"))]
                   ELSE UNCHANGED <<chans, transferProgress>>
           ELSE /\ tasks' = [tasks EXCEPT ![k].st = "reading"]
                /\ UNCHANGED <<chans, transferProgress>>
        /\ UNCHANGED <<call, ids, connectionState, isChannelReady, rendered, pc, pcGen,
                       dataChannel, sendQueue, isInitiator, receivingFiles, files,
                       pending, net, received, budget, hist>>

\* ------------------------------------------------------- the receiver
\* A completion that keeps the reassembly entry.
FileCompleteFilesKeeps(e, id) == receivingFiles[e]

\* handleFileComplete(fileId): without a reassembly entry nothing happens;
\* otherwise the chunks are joined into one file with the announced name,
\* type and lastModified, the record is completed, the file is handed to
\* onFileReceived and the entry is deleted.
FileCompleteFiles(e, id) ==
    IF id \notin DOMAIN receivingFiles[e] THEN receivingFiles[e]
    ELSE MapDelete(receivingFiles[e], id)

FileCompleteProgress(e, id) ==
    IF id \notin DOMAIN receivingFiles[e] THEN transferProgress[e]
    ELSE LET meta == receivingFiles[e][id].metadata
         IN  MapSet(transferProgress[e], id,
                    Progress(meta.name, meta.size, meta.size, 100, "completed", "receiving"))

\* A completion that hands over an empty file when no entry exists.
FileCompleteReceivedAlways(e, id) ==
    IF id \notin DOMAIN receivingFiles[e]
    THEN Append(received[e],
                [fileId |-> id, name |-> <<>>, type |-> <<>>, lastModified |-> 0,
                 bytes |-> <<>>, metadata |-> NoMeta])
    ELSE LET info == receivingFiles[e][id]
         IN  Append(received[e],
                    [fileId |-> id, name |-> info.metadata.name, type |-> info.metadata.type,
                     lastModified |-> info.metadata.lastModified,
                     bytes |-> Concat(info.chunks), metadata |-> info.metadata])

FileCompleteReceived(e, id) ==
    IF id \notin DOMAIN receivingFiles[e] THEN received[e]
    ELSE LET info == receivingFiles[e][id]
         IN  Append(received[e],
                    [fileId |-> id, name |-> info.metadata.name, type |-> info.metadata.type,
                     lastModified |-> info.metadata.lastModified,
                     bytes |-> Concat(info.chunks), metadata |-> info.metadata])

\* The binary branch of handleDataChannelMessage: the id is cut out of the
\* frame, and if a reassembly entry exists the payload is appended to it and
\* the progress recomputed from the sum of the chunk lengths.
\* The same, cutting the declared id length down to the bytes there are.
ChunkFilesClamps(e, data) ==
    LET n == IF data = <<>> THEN 0 ELSE Min(data[1], Len(data) - 1)
        id == TextDecode(SubSeq(data, 2, 1 + n))
    IN  IF id \notin DOMAIN receivingFiles[e] THEN receivingFiles[e]
        ELSE [receivingFiles[e] EXCEPT ![id].chunks =
                 Append(@, SubSeq(data, 2 + n, Len(data)))]

ChunkFiles(e, data) ==
    IF DecodeThrows(data) THEN receivingFiles[e]
    ELSE LET id == DecodeFileId(data)
         IN  IF id \notin DOMAIN receivingFiles[e] THEN receivingFiles[e]
             ELSE [receivingFiles[e] EXCEPT ![id].chunks = Append(@, DecodePayload(data))]

ChunkProgress(e, data) ==
    IF DecodeThrows(data) THEN transferProgress[e]
    ELSE
    LET id == DecodeFileId(data)
    IN  IF id \notin DOMAIN receivingFiles[e] THEN transferProgress[e]
        ELSE LET info == ChunkFiles(e, data)[id]
                 transferred == SumLen(info.chunks)
             IN  MapSet(transferProgress[e], id,
                        Progress(info.metadata.name, info.metadata.size, transferred,
                                 Percentage(transferred, info.metadata.size),
                                 "transferring", "receiving"))

\* handleDataChannelMessage at endpoint e for one frame.
HandleDataChannelMessage(e, frame) ==
    /\ receivingFiles' = [receivingFiles EXCEPT ![e] =
          CASE frame.kind = "file-start" ->
                 MapSet(@, frame.fileId, [chunks |-> <<>>, metadata |-> frame.metadata])
            [] frame.kind = "file-end" -> FileCompleteFiles(e, frame.fileId)
            [] OTHER -> ChunkFiles(e, frame.data)]
    /\ transferProgress' = [transferProgress EXCEPT ![e] =
          CASE frame.kind = "file-start" ->
                 MapSet(@, frame.fileId,
                        Progress(frame.metadata.name, frame.metadata.size, 0, 0,
                                 "transferring", "receiving"))
            [] frame.kind = "file-end" -> FileCompleteProgress(e, frame.fileId)
            [] OTHER -> ChunkProgress(e, frame.data)]
    /\ received' = [received EXCEPT ![e] =
          IF frame.kind = "file-end" THEN FileCompleteReceived(e, frame.fileId) ELSE @]
    /\ hist' = [hist EXCEPT !.arrived[e] = Append(@, frame)]

\* The next frame the other end sent on channel c reaches endpoint e: the
\* channel delivers in the order sent, to an open end.
Deliver(c, e) ==
    /\ chans[c].st[e] = "open"
    /\ chans[c].rcv[e] < Len(chans[c].log[Other(e)])
    /\ chans' = [chans EXCEPT ![c].rcv[e] = @ + 1]
    /\ HandleDataChannelMessage(e, chans[c].log[Other(e)][chans[c].rcv[e] + 1])
    /\ UNCHANGED <<call, ids, connectionState, isChannelReady, rendered, pc, pcGen,
                   dataChannel, sendQueue, isInitiator, files, tasks, pending, net,
                   budget>>

\* The frames a remote sender of any make may put on the channel: control
\* and chunk frames for two file ids.
RemoteFrames ==
    UNION { { FileStartFrame(FileIdOf(k), MetaOf(k, SIZE_CAP)), FileEndFrame(FileIdOf(k)),
              ChunkFrame(FileIdOf(k), <<10 * k + 1>>),
              ChunkFrame(FileIdOf(k), <<10 * k + 2, 10 * k + 3>>) } : k \in 1..2 }

\* The end opposite to e, whatever runs there, sends a frame on channel c.
RemoteFrame(c, e, frame) ==
    /\ chans[c].st[e] = "open"
    /\ budget.frames > 0
    /\ budget' = [budget EXCEPT !.frames = @ - 1]
    /\ chans' = [chans EXCEPT ![c].log[Other(e)] = Append(@, frame)]
    /\ UNCHANGED <<call, ids, connectionState, isChannelReady, rendered, pc, pcGen,
                   dataChannel, sendQueue, isInitiator, receivingFiles,
                   transferProgress, files, tasks, pending, net, received, hist>>

\* ------------------------------------------------------- negotiation
\* React commits the state set since the last render: callbacks created from
\* now on close over it.
Render(e) ==
    /\ rendered[e] # [cs |-> connectionState[e], ready |-> isChannelReady[e]]
    /\ rendered' = [rendered EXCEPT ![e] =
                       [cs |-> connectionState[e], ready |-> isChannelReady[e]]]
    /\ UNCHANGED <<call, ids, connectionState, isChannelReady, pc, pcGen, dataChannel, chans,
                   sendQueue, isInitiator, receivingFiles, transferProgress, files,
                   tasks, pending, net, received, budget, hist>>

\* A role that does not depend on the order of the ids.
DetermineRoleAlways(e) == ids[e] # ids[Other(e)]

\* currentUserId < otherUserId
DetermineRole(e) == StrLess(ids[e], ids[Other(e)])

\* initializePeerConnection: the existing connection, or a new one (and
\* connectionState 'connecting').
InitializedPc(e) == IF pc[e].gen # 0 THEN pc[e] ELSE NewPc(pcGen[e] + 1)
InitializedGen(e) == IF pc[e].gen # 0 THEN pcGen[e] ELSE pcGen[e] + 1
InitializedState(e) == IF pc[e].gen # 0 THEN connectionState[e] ELSE "connecting"

\* establishConnection after its guards, to the first await: the peer
\* connection is initialized and the role determined; the initiator creates a
\* data channel (it becomes dataChannel.current, and its onopen handler keeps
\* the processSendQueue of this render) and starts creating the offer.
EstablishBody(e) ==
    /\ pc' = [pc EXCEPT ![e] = InitializedPc(e)]
    /\ pcGen' = [pcGen EXCEPT ![e] = InitializedGen(e)]
    /\ connectionState' = [connectionState EXCEPT ![e] = InitializedState(e)]
    /\ isInitiator' = [isInitiator EXCEPT ![e] = DetermineRole(e)]
    /\ IF DetermineRole(e)
       THEN /\ chans' = Append(chans, NewChan(e, InitializedPc(e).gen, rendered[e].ready))
            /\ dataChannel' = [dataChannel EXCEPT ![e] = Len(chans) + 1]
            /\ pending' = [pending EXCEPT ![e].offers = Append(@, InitializedPc(e).gen)]
            /\ hist' = [hist EXCEPT !.passed[e] = @ + 1, !.created[e] = @ + 1]
       ELSE /\ hist' = [hist EXCEPT !.passed[e] = @ + 1]
            /\ UNCHANGED <<chans, dataChannel, pending>>

\* The guards of establishConnection, on the connectionState of its render.
EstablishGuard(e) == rendered[e].cs \notin {"connected", "connecting"}

\* establishConnection(), called by the application.
EstablishConnection(e) ==
    /\ budget.est[e] > 0
    /\ budget' = [budget EXCEPT !.est[e] = @ - 1]
    /\ EstablishGuard(e)
    /\ EstablishBody(e)
    /\ UNCHANGED <<call, ids, isChannelReady, rendered, sendQueue, receivingFiles,
                   transferProgress, files, tasks, net, received>>

\* establishConnection after createOffer and setLocalDescription resolved:
\* the offer is emitted.  On a connection closed in the meantime, or one
\* holding a remote offer, the call throws and connectionState is 'failed'.
OfferCreated(e) ==
    /\ pending[e].offers # <<>>
    /\ pending' = [pending EXCEPT ![e].offers = Tail(@)]
    /\ IF pc[e].gen = Head(pending[e].offers) /\ pc[e].sig # "have-remote-offer"
       THEN /\ pc' = [pc EXCEPT ![e].local = TRUE, ![e].sig = "have-local-offer"]
            /\ net' = [net EXCEPT ![Other(e)] =
                          Append(@, [type |-> "offer", gen |-> pc[e].gen,
                                     userId |-> ids[e]])]
            /\ hist' = [hist EXCEPT !.offers[e] = @ + 1]
            /\ UNCHANGED connectionState
       ELSE /\ connectionState' = [connectionState EXCEPT ![e] = "failed"]
            /\ hist' = [hist EXCEPT !.threw[e] = @ + 1]
            /\ UNCHANGED <<pc, net>>
    /\ UNCHANGED <<call, ids, isChannelReady, rendered, pcGen, dataChannel, chans, sendQueue,
                   isInitiator, receivingFiles, transferProgress, files, tasks,
                   received, budget>>

\* A guard that lets every sender pass.
FromAnyone(e, data) == TRUE

\* The guard the three signaling handlers start with: data.userId is
\* otherUserId.
FromPeer(e, data) == data.userId = ids[Other(e)]

\* A handler returns at that guard: the message is gone and nothing else
\* has happened.
Ignored(e, i) ==
    /\ net' = [net EXCEPT ![e] = SubSeq(@, 1, i - 1) \o SubSeq(@, i + 1, Len(@))]
    /\ UNCHANGED <<call, ids, connectionState, isChannelReady, rendered, pc, pcGen,
                   dataChannel, chans, sendQueue, isInitiator, receivingFiles,
                   transferProgress, files, tasks, pending, received, budget, hist>>

\* handleFileOffer for an offer that passed the guard.
HandleFileOfferFromPeer(e) ==
    /\ net' = [net EXCEPT ![e] = Tail(@),
                          ![Other(e)] = Append(@, [type |-> "answer",
                                                   gen |-> InitializedPc(e).gen,
                                                   userId |-> ids[e]])]
    /\ pc' = [pc EXCEPT ![e] = [InitializedPc(e) EXCEPT
                                   !.remote = Head(net[e]).gen, !.local = TRUE,
                                   !.sig = "stable"]]
    /\ pcGen' = [pcGen EXCEPT ![e] = InitializedGen(e)]
    /\ connectionState' = [connectionState EXCEPT ![e] = InitializedState(e)]
    /\ UNCHANGED <<call, ids, isChannelReady, rendered, dataChannel, chans, sendQueue,
                   isInitiator, receivingFiles, transferProgress, files, tasks,
                   pending, received, budget, hist>>

\* handleFileOffer: the peer connection is initialized, the offer becomes the
\* remote description, the answer the local one, and the answer is emitted.
HandleFileOffer(e) ==
    /\ net[e] # <<>> /\ Head(net[e]).type = "offer"
    /\ IF FromPeer(e, Head(net[e])) THEN HandleFileOfferFromPeer(e) ELSE Ignored(e, 1)

\* A handleFileAnswer whose catch block only logs the error.
HandleFileAnswerOnlyLogs(e) ==
    /\ net[e] # <<>> /\ Head(net[e]).type = "answer"
    /\ net' = [net EXCEPT ![e] = Tail(@)]
    /\ IF FromPeer(e, Head(net[e])) /\ pc[e].gen # 0 /\ pc[e].sig = "have-local-offer"
       THEN pc' = [pc EXCEPT ![e].remote = Head(net[e]).gen, ![e].sig = "stable"]
       ELSE UNCHANGED pc
    /\ UNCHANGED <<call, ids, connectionState, isChannelReady, rendered, pcGen, dataChannel,
                   chans, sendQueue, isInitiator, receivingFiles, transferProgress,
                   files, tasks, pending, received, budget, hist>>

\* handleFileAnswer: with a peer connection, the answer becomes the remote
\* description; outside have-local-offer setRemoteDescription throws and
\* connectionState is 'failed'.  Without a peer connection nothing happens.
HandleFileAnswer(e) ==
    /\ net[e] # <<>> /\ Head(net[e]).type = "answer"
    /\ net' = [net EXCEPT ![e] = Tail(@)]
    /\ IF ~FromPeer(e, Head(net[e])) \/ pc[e].gen = 0 THEN UNCHANGED <<pc, connectionState>>
       ELSE IF pc[e].sig = "have-local-offer"
       THEN /\ pc' = [pc EXCEPT ![e].remote = Head(net[e]).gen, ![e].sig = "stable"]
            /\ UNCHANGED connectionState
       ELSE /\ connectionState' = [connectionState EXCEPT ![e] = "failed"]
            /\ UNCHANGED pc
    /\ UNCHANGED <<call, ids, isChannelReady, rendered, pcGen, dataChannel, chans, sendQueue,
                   isInitiator, receivingFiles, transferProgress, files, tasks,
                   pending, received, budget, hist>>

\* onicecandidate: once the local description is set the connection gathers
\* candidates and each is emitted to the peer.
IceCandidate(e) ==
    /\ pc[e].gen # 0 /\ pc[e].local
    /\ budget.cands > 0
    /\ budget' = [budget EXCEPT !.cands = @ - 1]
    /\ net' = [net EXCEPT ![Other(e)] = Append(@, [type |-> "candidate", gen |-> pc[e].gen,
                                                   userId |-> ids[e]])]
    /\ UNCHANGED <<call, ids, connectionState, isChannelReady, rendered, pc, pcGen,
                   dataChannel, chans, sendQueue, isInitiator, receivingFiles,
                   transferProgress, files, tasks, pending, received, hist>>

\* Where the next candidate to be handled stands among e's messages: at the
\* head, or right behind an offer or answer whose handler is waiting for
\* setRemoteDescription (the handlers are async, so the next message is
\* handled during the await; remoteDescription is still what it was).
CandidateAt(e) ==
    {i \in 1..Min(2, Len(net[e])) :
        /\ net[e][i].type = "candidate"
        /\ i = 2 => net[e][1].type \in {"offer", "answer"}}

\* handleFileIceCandidate: with a peer connection whose remote description
\* is set the candidate is handed to addIceCandidate; otherwise nothing is
\* done with it.
HandleFileIceCandidate(e) ==
    \E i \in CandidateAt(e) :
        IF ~FromPeer(e, net[e][i]) THEN Ignored(e, i)
        ELSE
        /\ net' = [net EXCEPT ![e] = SubSeq(@, 1, i - 1) \o SubSeq(@, i + 1, Len(@))]
        /\ hist' = IF pc[e].gen # 0 /\ pc[e].remote # 0
                   THEN [hist EXCEPT !.applied[e] = @ + 1]
                   ELSE [hist EXCEPT !.dropped[e] = @ + 1]
        /\ UNCHANGED <<call, ids, connectionState, isChannelReady, rendered, pc, pcGen,
                       dataChannel, chans, sendQueue, isInitiator, receivingFiles,
                       transferProgress, files, tasks, pending, received, budget>>

\* A user that is not the peer sends endpoint e an offer, an answer or a
\* candidate through the relay.
Stranger == <<48 + 3>>
StraySignal(e) ==
    /\ budget.strays > 0
    /\ budget' = [budget EXCEPT !.strays = @ - 1]
    /\ \E t \in {"offer", "answer", "candidate"} :
           net' = [net EXCEPT ![e] = Append(@, [type |-> t, gen |-> 1, userId |-> Stranger])]
    /\ UNCHANGED <<call, ids, connectionState, isChannelReady, rendered, pc, pcGen,
                   dataChannel, chans, sendQueue, isInitiator, receivingFiles,
                   transferProgress, files, tasks, pending, received, hist>>

\* The relay delivers the message at the head of the queue to e once more
\* (delivery is not exactly-once).
DuplicateSignal(e) ==
    /\ net[e] # <<>>
    /\ budget.dups > 0
    /\ budget' = [budget EXCEPT !.dups = @ - 1]
    /\ net' = [net EXCEPT ![e] = <<Head(@)>> \o @]
    /\ UNCHANGED <<call, ids, connectionState, isChannelReady, rendered, pc, pcGen,
                   dataChannel, chans, sendQueue, isInitiator, receivingFiles,
                   transferProgress, files, tasks, pending, received, hist>>

\* ------------------------------------------- the transport's reports
\* onconnectionstatechange with state 'connecting': the connection has both
\* descriptions and starts its connectivity checks.
TransportConnecting(e) ==
    /\ pc[e].gen # 0 /\ pc[e].state = "new"
    /\ pc[e].local /\ pc[e].remote # 0
    /\ pc' = [pc EXCEPT ![e].state = "connecting"]
    /\ connectionState' = [connectionState EXCEPT ![e] = "connecting"]
    /\ UNCHANGED <<call, ids, isChannelReady, rendered, pcGen, dataChannel, chans, sendQueue,
                   isInitiator, receivingFiles, transferProgress, files, tasks,
                   pending, net, received, budget, hist>>

\* onconnectionstatechange with state 'connected': the two connections hold
\* each other's descriptions and the transport connects (or reconnects).
TransportConnected(e) ==
    /\ pc[e].state \in {"connecting", "disconnected"}
    /\ Paired(e)
    /\ pc[Other(e)].state # "failed"
    /\ pc' = [pc EXCEPT ![e].state = "connected"]
    /\ connectionState' = [connectionState EXCEPT ![e] = "connected"]
    /\ UNCHANGED <<call, ids, isChannelReady, rendered, pcGen, dataChannel, chans, sendQueue,
                   isInitiator, receivingFiles, transferProgress, files, tasks,
                   pending, net, received, budget, hist>>

\* onconnectionstatechange with state 'disconnected'.
TransportDisconnected(e) ==
    /\ pc[e].gen # 0 /\ pc[e].state = "connected"
    /\ budget.faults > 0
    /\ budget' = [budget EXCEPT !.faults = @ - 1]
    /\ pc' = [pc EXCEPT ![e].state = "disconnected"]
    /\ connectionState' = [connectionState EXCEPT ![e] = "disconnected"]
    /\ isChannelReady' = [isChannelReady EXCEPT ![e] = FALSE]
    /\ UNCHANGED <<call, ids, rendered, pcGen, dataChannel, chans, sendQueue, isInitiator,
                   receivingFiles, transferProgress, files, tasks, pending, net,
                   received, hist>>

\* onconnectionstatechange with state 'failed': connectionState is 'failed'
\* and the teardown is scheduled one second later.
TransportFailed(e) ==
    /\ pc[e].gen # 0 /\ pc[e].state \in {"connecting", "connected", "disconnected"}
    /\ budget.faults > 0
    /\ budget' = [budget EXCEPT !.faults = @ - 1]
    /\ pc' = [pc EXCEPT ![e].state = "failed"]
    /\ connectionState' = [connectionState EXCEPT ![e] = "failed"]
    /\ pending' = [pending EXCEPT ![e].cooldown = @ + 1]
    /\ UNCHANGED <<call, ids, isChannelReady, rendered, pcGen, dataChannel, chans, sendQueue,
                   isInitiator, receivingFiles, transferProgress, files, tasks, net,
                   received, hist>>

\* A scheduled teardown that leaves isChannelReady as it was.
CooldownTimerKeepsReady(e) ==
    /\ pending[e].cooldown > 0
    /\ pending' = [pending EXCEPT ![e].cooldown = @ - 1]
    /\ chans' = CloseChannelsOf(chans, e, pc[e].gen)
    /\ pc' = [pc EXCEPT ![e] = NoPc]
    /\ dataChannel' = [dataChannel EXCEPT ![e] = 0]
    /\ connectionState' = [connectionState EXCEPT ![e] = "disconnected"]
    /\ UNCHANGED <<call, ids, isChannelReady, rendered, pcGen, sendQueue, isInitiator,
                   receivingFiles, transferProgress, files, tasks, net, received,
                   budget, hist>>

\* The teardown scheduled by a 'failed' report: whatever peer connection and
\* channel are current now are closed and dropped.
CooldownTimer(e) ==
    /\ pending[e].cooldown > 0
    /\ pending' = [pending EXCEPT ![e].cooldown = @ - 1]
    /\ chans' = CloseChannelsOf(chans, e, pc[e].gen)
    /\ pc' = [pc EXCEPT ![e] = NoPc]
    /\ dataChannel' = [dataChannel EXCEPT ![e] = 0]
    /\ connectionState' = [connectionState EXCEPT ![e] = "disconnected"]
    /\ isChannelReady' = [isChannelReady EXCEPT ![e] = FALSE]
    /\ UNCHANGED <<call, ids, rendered, pcGen, sendQueue, isInitiator, receivingFiles,
                   transferProgress, files, tasks, net, received, budget, hist>>

\* A teardown that leaves the send queue as it was.
CleanupBodyKeepsQueue(e) ==
    /\ chans' = CloseChannelsOf(chans, e, pc[e].gen)
    /\ pc' = [pc EXCEPT ![e] = NoPc]
    /\ dataChannel' = [dataChannel EXCEPT ![e] = 0]
    /\ connectionState' = [connectionState EXCEPT ![e] = "disconnected"]
    /\ isChannelReady' = [isChannelReady EXCEPT ![e] = FALSE]
    /\ receivingFiles' = [receivingFiles EXCEPT ![e] = EmptyMap]
    /\ sendQueue' = sendQueue
    /\ isInitiator' = [isInitiator EXCEPT ![e] = FALSE]

\* A teardown that leaves connectionState as it was.
CleanupBodyKeepsState(e) ==
    /\ chans' = CloseChannelsOf(chans, e, pc[e].gen)
    /\ pc' = [pc EXCEPT ![e] = NoPc]
    /\ dataChannel' = [dataChannel EXCEPT ![e] = 0]
    /\ connectionState' = connectionState
    /\ isChannelReady' = [isChannelReady EXCEPT ![e] = FALSE]
    /\ receivingFiles' = [receivingFiles EXCEPT ![e] = EmptyMap]
    /\ sendQueue' = [sendQueue EXCEPT ![e] = <<>>]
    /\ isInitiator' = [isInitiator EXCEPT ![e] = FALSE]

\* A teardown that reports 'failed' when it finds no peer connection.
CleanupBodyFailsWhenIdle(e) ==
    /\ chans' = CloseChannelsOf(chans, e, pc[e].gen)
    /\ pc' = [pc EXCEPT ![e] = NoPc]
    /\ dataChannel' = [dataChannel EXCEPT ![e] = 0]
    /\ connectionState' = [connectionState EXCEPT ![e] =
                               IF pc[e].gen = 0 THEN "failed" ELSE "disconnected"]
    /\ isChannelReady' = [isChannelReady EXCEPT ![e] = FALSE]
    /\ receivingFiles' = [receivingFiles EXCEPT ![e] = EmptyMap]
    /\ sendQueue' = [sendQueue EXCEPT ![e] = <<>>]
    /\ isInitiator' = [isInitiator EXCEPT ![e] = FALSE]

\* cleanup(): channel and connection closed and dropped, state reset, queue
\* and reassembly map emptied.  Continuations and timers are not cancelled.
CleanupBody(e) ==
    /\ chans' = CloseChannelsOf(chans, e, pc[e].gen)
    /\ pc' = [pc EXCEPT ![e] = NoPc]
    /\ dataChannel' = [dataChannel EXCEPT ![e] = 0]
    /\ connectionState' = [connectionState EXCEPT ![e] = "disconnected"]
    /\ isChannelReady' = [isChannelReady EXCEPT ![e] = FALSE]
    /\ receivingFiles' = [receivingFiles EXCEPT ![e] = EmptyMap]
    /\ sendQueue' = [sendQueue EXCEPT ![e] = <<>>]
    /\ isInitiator' = [isInitiator EXCEPT ![e] = FALSE]

\* cleanup(), called by the application.
Cleanup(e) ==
    /\ budget.cleanups > 0
    /\ budget' = [budget EXCEPT !.cleanups = @ - 1]
    /\ CleanupBody(e)
    /\ UNCHANGED <<call, ids, rendered, pcGen, transferProgress, files, tasks, pending, net,
                   received, hist>>

\* The reset effect: cleanup() 100 ms after otherUserId was set.
ResetTimer(e) ==
    /\ pending[e].reset
    /\ pending' = [pending EXCEPT ![e].reset = FALSE]
    /\ CleanupBody(e)
    /\ UNCHANGED <<call, ids, rendered, pcGen, transferProgress, files, tasks, net,
                   received, budget, hist>>

\* ------------------------------------------------ the send queue
\* processNext: the head of the queue is removed and handed to sendFile; the
\* next processNext is scheduled 100 ms later only if sendFile returned true
\* and files remain.  base: the channels, timers: the processNext timers
\* pending besides this run.
ProcessNextBody(e, base, timers, throws) ==
    LET k == Head(sendQueue[e])
        s == files[k].size
        rest == Tail(sendQueue[e])
    IN  /\ sendQueue' = [sendQueue EXCEPT ![e] = rest]
        /\ chans' = SendFileChans(base, e, k, s, throws)
        /\ transferProgress' = SendFileProgress(base, e, k, s, throws)
        /\ tasks' = [tasks EXCEPT ![k] = SendFileTask(base, e, "queue", s, throws)]
        /\ pending' = [pending EXCEPT ![e].processNext =
              IF SendFileOk(base, e, throws) /\ Len(rest) > 0 THEN timers + 1 ELSE timers]
        /\ budget' = [budget EXCEPT !.faults = IF throws THEN @ - 1 ELSE @]

\* The guard of processSendQueue, with the isChannelReady it closed over.
ProcessSendQueueGuard(base, e, ready) ==
    ~(Len(sendQueue[e]) = 0 \/ ~ready \/ ~OpenIn(base, e))

\* processNext run by its 100 ms timer.
ProcessNextTimer(e) ==
    /\ pending[e].processNext > 0
    /\ IF Len(sendQueue[e]) = 0
       THEN /\ pending' = [pending EXCEPT ![e].processNext = @ - 1]
            /\ UNCHANGED <<sendQueue, chans, transferProgress, tasks, budget>>
       ELSE \E throws \in MayThrow(chans, e) :
               ProcessNextBody(e, chans, pending[e].processNext - 1, throws)
    /\ UNCHANGED <<call, ids, connectionState, isChannelReady, rendered, pc, pcGen,
                   dataChannel, isInitiator, receivingFiles, files, net, received,
                   hist>>

\* ------------------------------------------------- channel events
\* ondatachannel at the responder: the channel the initiator created on the
\* paired connection arrives and becomes dataChannel.current.
IncomingDataChannel(c) ==
    LET o == Other(chans[c].init)
    IN  /\ chans[c].st[o] = "none"
        /\ chans[c].st[chans[c].init] \in {"connecting", "open"}
        /\ Paired(o) /\ pc[o].state = "connected"
        /\ pc[o].remote = chans[c].gen
        /\ chans' = [chans EXCEPT ![c].st[o] = "connecting", ![c].rgen = pc[o].gen]
        /\ dataChannel' = [dataChannel EXCEPT ![o] = c]
        /\ UNCHANGED <<call, ids, connectionState, isChannelReady, rendered, pc, pcGen,
                       sendQueue, isInitiator, receivingFiles, transferProgress, files,
                       tasks, pending, net, received, budget, hist>>

\* onopen of channel c at endpoint e: ready, 'connected', and at the end that
\* created the channel processSendQueue.
ChannelOpen(c, e) ==
    LET base == [chans EXCEPT ![c].st[e] = "open"]
    IN  /\ chans[c].st[e] = "connecting"
        /\ pc[e].gen = ChanGen(chans[c], e)
        /\ Paired(e) /\ pc[e].state = "connected"
        /\ isChannelReady' = [isChannelReady EXCEPT ![e] = TRUE]
        /\ connectionState' = [connectionState EXCEPT ![e] = "connected"]
        /\ IF e = chans[c].init /\ ProcessSendQueueGuard(base, e, chans[c].cap)
           THEN \E throws \in MayThrow(base, e) :
                   ProcessNextBody(e, base, pending[e].processNext, throws)
           ELSE /\ chans' = base
                /\ UNCHANGED <<sendQueue, transferProgress, tasks, pending, budget>>
        /\ UNCHANGED <<call, ids, rendered, pc, pcGen, dataChannel, isInitiator,
                       receivingFiles, files, net, received, hist>>

\* onclose of channel c at endpoint e, closed by the other end or by a
\* failed transport.
ChannelClosed(c, e) ==
    /\ chans[c].st[e] \in {"connecting", "open"}
    /\ \/ chans[c].st[Other(e)] \in {"closing", "closed"}
       \/ pc[e].state = "failed"
    /\ chans' = [chans EXCEPT ![c].st[e] = "closed"]
    /\ isChannelReady' = [isChannelReady EXCEPT ![e] = FALSE]
    /\ UNCHANGED <<call, ids, connectionState, rendered, pc, pcGen, dataChannel, sendQueue,
                   isInitiator, receivingFiles, transferProgress, files, tasks,
                   pending, net, received, budget, hist>>

\* onclose of a channel that endpoint e closed itself.
ChannelCloseEvent(c, e) ==
    /\ chans[c].st[e] = "closing"
    /\ chans' = [chans EXCEPT ![c].st[e] = "closed"]
    /\ isChannelReady' = [isChannelReady EXCEPT ![e] = FALSE]
    /\ UNCHANGED <<call, ids, connectionState, rendered, pc, pcGen, dataChannel, sendQueue,
                   isInitiator, receivingFiles, transferProgress, files, tasks,
                   pending, net, received, budget, hist>>

\* onerror of channel c at endpoint e: the channel breaks while open.
ChannelError(c, e) ==
    /\ chans[c].st[e] = "open"
    /\ budget.faults > 0
    /\ budget' = [budget EXCEPT !.faults = @ - 1]
    /\ chans' = [chans EXCEPT ![c].st[e] = "closed"]
    /\ isChannelReady' = [isChannelReady EXCEPT ![e] = FALSE]
    /\ UNCHANGED <<call, ids, connectionState, rendered, pc, pcGen, dataChannel, sendQueue,
                   isInitiator, receivingFiles, transferProgress, files, tasks,
                   pending, net, received, hist>>

\* ------------------------------------------- the call hook (useWebRTC)
\* The variables of the file-transfer hook, which the call hook leaves alone.
fileVars == <<ids, connectionState, isChannelReady, rendered, pc, pcGen, dataChannel,
              chans, sendQueue, isInitiator, receivingFiles, transferProgress, files,
              tasks, pending, net, received, hist>>

\* initializePeerConnection() of the call hook, called by the application
\* when a call is started or accepted.
CallInitializePeerConnection ==
    /\ call.pc = 0
    /\ call.gens < MaxEstablish + 1
    /\ call' = [call EXCEPT !.pc = call.gens + 1, !.gens = @ + 1]
    /\ UNCHANGED <<fileVars, budget>>

\* cleanup() of the call hook: the connection is closed and dropped and the
\* queue emptied; operations pending on a closed connection never settle, so
\* the handlers waiting for them never resume.
CallCleanup ==
    /\ call.pc # 0
    /\ budget.cleanups > 0
    /\ budget' = [budget EXCEPT !.cleanups = @ - 1]
    /\ call' = [NoCall EXCEPT !.gens = call.gens]
    /\ UNCHANGED fileVars

\* handleOffer or handleAnswer up to the await of setRemoteDescription (the
\* two handlers are the same up to the end of the drain loop): without a
\* peer connection the handler returns.
HandleDescription ==
    /\ budget.descs > 0
    /\ budget' = [budget EXCEPT !.descs = @ - 1]
    /\ call' = IF call.pc = 0 THEN call ELSE [call EXCEPT !.setting = @ + 1]
    /\ UNCHANGED fileVars

\* A drain iteration that pushes a candidate back when applying it fails.
DrainOneRequeues(c, ok) ==
    [c EXCEPT !.iceCandidateQueue = IF ok THEN Tail(@) ELSE Append(Tail(@), Head(@)),
              !.attempts = Append(@, [cand |-> Head(c.iceCandidateQueue), ok |-> ok,
                                      queued |-> TRUE])]

\* One iteration of the drain loop: the head of the queue is shifted and
\* handed to addIceCandidate, whose failure is caught; ok tells whether it
\* will succeed.
DrainOne(c, ok) ==
    [c EXCEPT !.iceCandidateQueue = Tail(@),
              !.attempts = Append(@, [cand |-> Head(c.iceCandidateQueue), ok |-> ok,
                                      queued |-> TRUE])]

\* Whether addIceCandidate may fail here: the faults are bounded.
MayFail == IF budget.faults > 0 THEN BOOLEAN ELSE {TRUE}

\* setRemoteDescription resolved: the remote description is set and the
\* handler goes on to the drain loop, whose first iteration runs at once.
RemoteDescriptionSet ==
    /\ call.setting > 0
    /\ LET set == [call EXCEPT !.setting = @ - 1, !.remote = TRUE]
       IN  IF call.iceCandidateQueue = <<>>
           THEN call' = set /\ UNCHANGED budget
           ELSE \E ok \in MayFail :
                   /\ call' = [DrainOne(set, ok) EXCEPT !.drains = @ + 1]
                   /\ budget' = [budget EXCEPT !.faults = IF ok THEN @ ELSE @ - 1]
    /\ UNCHANGED fileVars

\* setRemoteDescription rejected: the handler's catch block logs it.
RemoteDescriptionFailed ==
    /\ call.setting > 0
    /\ budget.faults > 0
    /\ budget' = [budget EXCEPT !.faults = @ - 1]
    /\ call' = [call EXCEPT !.setting = @ - 1]
    /\ UNCHANGED fileVars

\* A drain loop resumes after its await: the next iteration, or the end of
\* the loop when the queue is empty.
DrainStep ==
    /\ call.drains > 0
    /\ IF call.iceCandidateQueue = <<>>
       THEN call' = [call EXCEPT !.drains = @ - 1] /\ UNCHANGED budget
       ELSE \E ok \in MayFail :
               /\ call' = DrainOne(call, ok)
               /\ budget' = [budget EXCEPT !.faults = IF ok THEN @ ELSE @ - 1]
    /\ UNCHANGED fileVars

\* handleIceCandidate for a candidate from the peer: dropped without a peer
\* connection, handed to addIceCandidate when the remote description is
\* set, else pushed on the queue.
HandleIceCandidate ==
    LET cand == budget.cands
    IN  /\ budget.cands > 0
        /\ IF call.pc = 0
           THEN /\ call' = [call EXCEPT !.discarded = Append(@, cand)]
                /\ budget' = [budget EXCEPT !.cands = @ - 1]
           ELSE IF call.remote
           THEN \E ok \in MayFail :
                   /\ call' = [call EXCEPT !.attempts =
                                   Append(@, [cand |-> cand, ok |-> ok, queued |-> FALSE])]
                   /\ budget' = [budget EXCEPT !.cands = @ - 1,
                                               !.faults = IF ok THEN @ ELSE @ - 1]
           ELSE /\ call' = [call EXCEPT !.iceCandidateQueue = Append(@, cand),
                                        !.enqueued = Append(@, cand)]
                /\ budget' = [budget EXCEPT !.cands = @ - 1]
        /\ UNCHANGED fileVars

\* The callId the call hook was given, and the callIds signaling events carry.
callId == 1
CallIds == {callId, callId + 1}

\* The test the three signaling listeners of the call hook make before
\* calling a handler.
ForCall(id) == id = callId

\* A webrtc_offer, webrtc_answer or webrtc_ice_candidate event carrying
\* callId id reaches its listener: the handler is called for the current
\* call, and nothing is done for any other.
WebRTCSignal ==
    \E id \in CallIds, t \in {"offer", "answer", "candidate"} :
        IF ForCall(id)
        THEN IF t = "candidate" THEN HandleIceCandidate ELSE HandleDescription
        ELSE /\ budget.strays > 0
             /\ budget' = [budget EXCEPT !.strays = @ - 1]
             /\ UNCHANGED <<call, fileVars>>

\* ------------------------------------------------------- queueFile
\* A size check that also refuses a file of exactly the cap.
TooLargeInclusive(s) == s >= SIZE_CAP

\* The size check of queueFile.
TooLarge(s) == s > SIZE_CAP

\* A queueFile that returns whether the file was sent at once.
QueueFileReturnsSent(e, s) ==
    IF TooLarge(s) THEN FALSE ELSE rendered[e].ready /\ ChannelIsOpen(e)

\* What queueFile returns: false when the file is refused, true after
\* sendFile was called (whatever it returns) and after the file was queued.
QueueFileReturns(e, s) ==
    IF TooLarge(s) THEN FALSE
    ELSE IF rendered[e].ready /\ ChannelIsOpen(e) THEN TRUE
    ELSE TRUE

\* queueFile(file) with a file of size s: refused over the cap; sent at once
\* when this render saw the channel ready and it is open; else appended to
\* the queue, and establishConnection is called when this render saw the
\* session disconnected or failed.
QueueFile(e, s) ==
    LET k == Len(files) + 1
    IN  /\ budget.files > 0
        /\ files' = Append(files, [owner |-> e, size |-> s,
                                   returned |-> QueueFileReturns(e, s)])
        /\ IF TooLarge(s)
           THEN /\ tasks' = Append(tasks, [st |-> "rejected", offset |-> 0, via |-> "direct"])
                /\ budget' = [budget EXCEPT !.files = @ - 1]
                /\ UNCHANGED <<chans, transferProgress, sendQueue, pc, pcGen,
                               connectionState, isInitiator, dataChannel, pending, hist>>
           ELSE IF rendered[e].ready /\ ChannelIsOpen(e)
           THEN \E throws \in MayThrow(chans, e) :
                   /\ chans' = SendFileChans(chans, e, k, s, throws)
                   /\ transferProgress' = SendFileProgress(chans, e, k, s, throws)
                   /\ tasks' = Append(tasks, SendFileTask(chans, e, "direct", s, throws))
                   /\ budget' = [budget EXCEPT !.files = @ - 1,
                                               !.faults = IF throws THEN @ - 1 ELSE @]
                   /\ UNCHANGED <<sendQueue, pc, pcGen, connectionState, isInitiator,
                                  dataChannel, pending, hist>>
           ELSE /\ sendQueue' = [sendQueue EXCEPT ![e] = Append(@, k)]
                /\ tasks' = Append(tasks, NoTask)
                /\ budget' = [budget EXCEPT !.files = @ - 1]
                /\ UNCHANGED transferProgress
                /\ IF rendered[e].cs \in {"disconnected", "failed"}
                   THEN EstablishBody(e)
                   ELSE UNCHANGED <<chans, pc, pcGen, connectionState, isInitiator,
                                    dataChannel, pending, hist>>
        /\ UNCHANGED <<call, ids, isChannelReady, rendered, receivingFiles, net, received>>

\* ----------------------------------------------------- specifications
NoBudget ==
    [files |-> 0, est |-> [e \in E |-> 0], faults |-> 0, cleanups |-> 0, dups |-> 0,
     frames |-> 0, cands |-> 0, descs |-> 0, strays |-> 0]

\* Negotiation.  The two hooks after their first render with otherUserId
\* set: nothing exists yet and the reset effect's timer is pending.  The
\* application calls establishConnection; the relay may duplicate a message
\* and the transport may report a fault.
Init ==
    /\ InitCommon
    /\ pending = [e \in E |-> [NoPending EXCEPT !.reset = TRUE]]
    /\ \E p \in IdPairs : ids = [e \in E |-> p[e]]
    /\ budget = [NoBudget EXCEPT !.est = [e \in E |-> MaxEstablish],
                                 !.faults = MaxFaults, !.dups = MaxDups]

Next ==
    \/ \E e \in E : Render(e)
    \/ \E e \in E : EstablishConnection(e)
    \/ \E e \in E : OfferCreated(e)
    \/ \E e \in E : HandleFileOffer(e)
    \/ \E e \in E : HandleFileAnswer(e)
    \/ \E e \in E : DuplicateSignal(e)
    \/ \E e \in E : TransportConnecting(e)
    \/ \E e \in E : TransportConnected(e)
    \/ \E e \in E : TransportDisconnected(e)
    \/ \E e \in E : TransportFailed(e)
    \/ \E e \in E : CooldownTimer(e)
    \/ \E e \in E : ResetTimer(e)
    \/ \E c \in DOMAIN chans : IncomingDataChannel(c)
    \/ \E c \in DOMAIN chans, e \in E : ChannelOpen(c, e)
    \/ \E c \in DOMAIN chans, e \in E : ChannelClosed(c, e)
    \/ \E c \in DOMAIN chans, e \in E : ChannelCloseEvent(c, e)

Spec == Init /\ [][Next]_vars

\* Transfer.  Same start, with user ids "1" and "2"; the application calls
\* establishConnection at endpoint 1 and hands a file to queueFile at either
\* endpoint; a channel may break and a read may fail.
InitTransfer ==
    /\ InitCommon
    /\ pending = [e \in E |-> [NoPending EXCEPT !.reset = TRUE]]
    /\ ids = [e \in E |-> <<48 + e>>]
    /\ budget = [NoBudget EXCEPT !.files = MaxSent, !.faults = MaxFaults,
                                 !.est = [e \in E |-> IF e = 1 THEN MaxEstablish ELSE 0]]

NextTransfer ==
    \/ \E e \in E : Render(e)
    \/ \E e \in E : EstablishConnection(e)
    \/ \E e \in E, s \in FileSizes : QueueFile(e, s)
    \/ \E e \in E : OfferCreated(e)
    \/ \E e \in E : HandleFileOffer(e)
    \/ \E e \in E : HandleFileAnswer(e)
    \/ \E e \in E : TransportConnecting(e)
    \/ \E e \in E : TransportConnected(e)
    \/ \E e \in E : ResetTimer(e)
    \/ \E c \in DOMAIN chans : IncomingDataChannel(c)
    \/ \E c \in DOMAIN chans, e \in E : ChannelOpen(c, e)
    \/ \E c \in DOMAIN chans, e \in E : ChannelError(c, e)
    \/ \E c \in DOMAIN chans, e \in E : ChannelClosed(c, e)
    \/ \E c \in DOMAIN chans, e \in E : Deliver(c, e)
    \/ \E k \in DOMAIN files : ReadLoaded(k)
    \/ \E k \in DOMAIN files : ReadError(k)
    \/ \E k \in DOMAIN files : ReadNextChunk(k)

SpecTransfer == InitTransfer /\ [][NextTransfer]_vars

\* Queue.  The hooks once the reset effect's timer has run (on a hook that
\* has done nothing yet it changes nothing).  The application at endpoint 1,
\* the initiator, calls establishConnection and hands files to queueFile;
\* the send of a file-start may throw.
QueueSizes == {1, SIZE_CAP}

InitQueue ==
    /\ InitCommon
    /\ pending = [e \in E |-> NoPending]
    /\ ids = [e \in E |-> <<48 + e>>]
    /\ budget = [NoBudget EXCEPT !.files = MaxFiles, !.faults = MaxFaults,
                                 !.est = [e \in E |-> IF e = 1 THEN MaxEstablish ELSE 0]]

NextQueue ==
    \/ \E e \in E : Render(e)
    \/ \E e \in E : EstablishConnection(e)
    \/ \E s \in QueueSizes : QueueFile(1, s)
    \/ \E e \in E : OfferCreated(e)
    \/ \E e \in E : HandleFileOffer(e)
    \/ \E e \in E : HandleFileAnswer(e)
    \/ \E e \in E : TransportConnecting(e)
    \/ \E e \in E : TransportConnected(e)
    \/ \E c \in DOMAIN chans : IncomingDataChannel(c)
    \/ \E c \in DOMAIN chans, e \in E : ChannelOpen(c, e)
    \/ \E e \in E : ProcessNextTimer(e)
    \/ \E k \in DOMAIN files : ReadLoaded(k)
    \/ \E k \in DOMAIN files : ReadNextChunk(k)

SpecQueue == InitQueue /\ [][NextQueue]_vars

\* Broken channel.  As Queue, with one-byte files, and a data channel may
\* break at the sending end while files are queued or being sent.
BrokenSizes == {1}

InitBroken ==
    /\ InitCommon
    /\ pending = [e \in E |-> NoPending]
    /\ ids = [e \in E |-> <<48 + e>>]
    /\ budget = [NoBudget EXCEPT !.files = MaxFiles, !.faults = MaxFaults,
                                 !.est = [e \in E |-> IF e = 1 THEN MaxEstablish ELSE 0]]

NextBroken ==
    \/ Render(1)
    \/ EstablishConnection(1)
    \/ \E s \in BrokenSizes : QueueFile(1, s)
    \/ \E e \in E : OfferCreated(e)
    \/ \E e \in E : HandleFileOffer(e)
    \/ \E e \in E : HandleFileAnswer(e)
    \/ \E e \in E : TransportConnecting(e)
    \/ \E e \in E : TransportConnected(e)
    \/ \E c \in DOMAIN chans : IncomingDataChannel(c)
    \/ \E c \in DOMAIN chans, e \in E : ChannelOpen(c, e)
    \/ \E c \in DOMAIN chans : ChannelError(c, 1)
    \/ ProcessNextTimer(1)
    \/ \E k \in DOMAIN files : ReadLoaded(k)
    \/ \E k \in DOMAIN files : ReadNextChunk(k)

SpecBroken == InitBroken /\ [][NextBroken]_vars

\* Retry.  The hooks once the reset effect's timer has run; the application
\* at endpoint 1 calls establishConnection, and again after the transport
\* has reported a fault.
InitRetry ==
    /\ InitCommon
    /\ pending = [e \in E |-> NoPending]
    /\ ids = [e \in E |-> <<48 + e>>]
    /\ budget = [NoBudget EXCEPT !.faults = MaxFaults,
                                 !.est = [e \in E |-> IF e = 1 THEN MaxEstablish + 1 ELSE 0]]

NextRetry ==
    \/ \E e \in E : Render(e)
    \/ \E e \in E : EstablishConnection(e)
    \/ \E e \in E : OfferCreated(e)
    \/ \E e \in E : HandleFileOffer(e)
    \/ \E e \in E : HandleFileAnswer(e)
    \/ \E e \in E : TransportConnecting(e)
    \/ \E e \in E : TransportConnected(e)
    \/ \E e \in E : TransportFailed(e)
    \/ \E e \in E : CooldownTimer(e)
    \/ \E c \in DOMAIN chans : IncomingDataChannel(c)
    \/ \E c \in DOMAIN chans, e \in E : ChannelOpen(c, e)
    \/ \E c \in DOMAIN chans, e \in E : ChannelClosed(c, e)
    \/ \E c \in DOMAIN chans, e \in E : ChannelCloseEvent(c, e)

SpecRetry == InitRetry /\ [][NextRetry]_vars

\* Fault.  As Retry, and the transport may also report 'disconnected'.
NextFault ==
    \/ NextRetry
    \/ \E e \in E : TransportDisconnected(e)

SpecFault == InitRetry /\ [][NextFault]_vars

\* Strangers.  Endpoint 1 establishes the session and candidates are
\* exchanged, while users that are not the peer send either endpoint offers,
\* answers and candidates; the call hook is given a connection and receives
\* the events of its own call and of another.
InitStray ==
    /\ InitCommon
    /\ pending = [e \in E |-> NoPending]
    /\ ids = [e \in E |-> <<48 + e>>]
    /\ budget = [NoBudget EXCEPT !.strays = MaxStrays, !.cands = MaxDups,
                                 !.descs = MaxDups,
                                 !.est = [e \in E |-> IF e = 1 THEN MaxEstablish ELSE 0]]

NextStray ==
    \/ \E e \in E : EstablishConnection(e)
    \/ \E e \in E : OfferCreated(e)
    \/ \E e \in E : HandleFileOffer(e)
    \/ \E e \in E : HandleFileAnswer(e)
    \/ \E e \in E : IceCandidate(e)
    \/ \E e \in E : HandleFileIceCandidate(e)
    \/ \E e \in E : StraySignal(e)
    \/ CallInitializePeerConnection
    \/ RemoteDescriptionSet
    \/ DrainStep
    \/ WebRTCSignal
    \/ \E e \in E : TransportConnecting(e)
    \/ \E e \in E : TransportConnected(e)
    \/ \E c \in DOMAIN chans : IncomingDataChannel(c)
    \/ \E c \in DOMAIN chans, e \in E : ChannelOpen(c, e)

SpecStray == InitStray /\ [][NextStray]_vars

\* Teardown.  The hooks once the reset effect's timer has run; the
\* application at endpoint 1 calls establishConnection and hands a one-byte
\* file to queueFile; either application may call cleanup() at any moment.
InitTeardown ==
    /\ InitCommon
    /\ pending = [e \in E |-> NoPending]
    /\ ids = [e \in E |-> <<48 + e>>]
    /\ budget = [NoBudget EXCEPT !.files = MaxSent, !.cleanups = MaxFaults,
                                 !.est = [e \in E |-> IF e = 1 THEN MaxEstablish ELSE 0]]

NextTeardown ==
    \/ Render(1)
    \/ EstablishConnection(1)
    \/ \E s \in BrokenSizes : QueueFile(1, s)
    \/ \E e \in E : Cleanup(e)
    \/ \E e \in E : OfferCreated(e)
    \/ \E e \in E : HandleFileOffer(e)
    \/ \E e \in E : HandleFileAnswer(e)
    \/ \E e \in E : TransportConnecting(e)
    \/ \E e \in E : TransportConnected(e)
    \/ \E c \in DOMAIN chans : IncomingDataChannel(c)
    \/ \E c \in DOMAIN chans, e \in E : ChannelOpen(c, e)
    \/ \E c \in DOMAIN chans, e \in E : ChannelClosed(c, e)
    \/ \E c \in DOMAIN chans, e \in E : ChannelCloseEvent(c, e)
    \/ \E c \in DOMAIN chans, e \in E : Deliver(c, e)
    \/ \E k \in DOMAIN files : ReadLoaded(k)
    \/ \E k \in DOMAIN files : ReadNextChunk(k)

SpecTeardown == InitTeardown /\ [][NextTeardown]_vars

\* Repeated teardown.  As Teardown, with the application at endpoint 1
\* calling cleanup() up to twice.
InitRepeat ==
    /\ InitCommon
    /\ pending = [e \in E |-> NoPending]
    /\ ids = [e \in E |-> <<48 + e>>]
    /\ budget = [NoBudget EXCEPT !.files = MaxSent, !.cleanups = MaxCleanups,
                                 !.est = [e \in E |-> IF e = 1 THEN MaxEstablish ELSE 0]]

NextRepeat ==
    \/ Render(1)
    \/ EstablishConnection(1)
    \/ \E s \in BrokenSizes : QueueFile(1, s)
    \/ Cleanup(1)
    \/ \E e \in E : OfferCreated(e)
    \/ \E e \in E : HandleFileOffer(e)
    \/ \E e \in E : HandleFileAnswer(e)
    \/ \E e \in E : TransportConnecting(e)
    \/ \E e \in E : TransportConnected(e)
    \/ \E c \in DOMAIN chans : IncomingDataChannel(c)
    \/ \E c \in DOMAIN chans, e \in E : ChannelOpen(c, e)
    \/ \E c \in DOMAIN chans, e \in E : ChannelClosed(c, e)
    \/ \E c \in DOMAIN chans, e \in E : ChannelCloseEvent(c, e)
    \/ \E c \in DOMAIN chans, e \in E : Deliver(c, e)
    \/ \E k \in DOMAIN files : ReadLoaded(k)
    \/ \E k \in DOMAIN files : ReadNextChunk(k)

SpecRepeat == InitRepeat /\ [][NextRepeat]_vars

\* Cooldown.  The hooks once the reset effect's timer has run; the
\* application at endpoint 1 calls establishConnection, again after a
\* teardown, and hands a one-byte file to queueFile; the transport may report
\* a fault there, after which the cooldown timer tears the session down.
InitCooldown ==
    /\ InitCommon
    /\ pending = [e \in E |-> NoPending]
    /\ ids = [e \in E |-> <<48 + e>>]
    /\ budget = [NoBudget EXCEPT !.files = MaxSent, !.faults = MaxFaults,
                                 !.est = [e \in E |-> IF e = 1 THEN MaxEstablish + 1 ELSE 0]]

NextCooldown ==
    \/ Render(1)
    \/ EstablishConnection(1)
    \/ \E s \in BrokenSizes : QueueFile(1, s)
    \/ \E e \in E : OfferCreated(e)
    \/ \E e \in E : HandleFileOffer(e)
    \/ \E e \in E : HandleFileAnswer(e)
    \/ \E e \in E : TransportConnecting(e)
    \/ \E e \in E : TransportConnected(e)
    \/ TransportFailed(1)
    \/ CooldownTimer(1)
    \/ \E c \in DOMAIN chans : IncomingDataChannel(c)
    \/ \E c \in DOMAIN chans, e \in E : ChannelOpen(c, e)
    \/ \E c \in DOMAIN chans, e \in E : ChannelClosed(c, e)
    \/ \E c \in DOMAIN chans, e \in E : ChannelCloseEvent(c, e)
    \/ \E c \in DOMAIN chans, e \in E : Deliver(c, e)
    \/ \E k \in DOMAIN files : ReadLoaded(k)
    \/ \E k \in DOMAIN files : ReadNextChunk(k)

SpecCooldown == InitCooldown /\ [][NextCooldown]_vars

\* Stale timer.  The application at endpoint 1 calls establishConnection,
\* may call cleanup() after the transport reported 'failed', and calls
\* establishConnection again, all within the cooldown or after it.
InitStale ==
    /\ InitCommon
    /\ pending = [e \in E |-> NoPending]
    /\ ids = [e \in E |-> <<48 + e>>]
    /\ budget = [NoBudget EXCEPT !.faults = MaxFaults, !.cleanups = MaxFaults,
                                 !.est = [e \in E |-> IF e = 1 THEN MaxEstablish + 1 ELSE 0]]

NextStale ==
    \/ Render(1)
    \/ EstablishConnection(1)
    \/ Cleanup(1)
    \/ \E e \in E : OfferCreated(e)
    \/ \E e \in E : HandleFileOffer(e)
    \/ \E e \in E : HandleFileAnswer(e)
    \/ \E e \in E : TransportConnecting(e)
    \/ \E e \in E : TransportConnected(e)
    \/ TransportFailed(1)
    \/ CooldownTimer(1)
    \/ \E c \in DOMAIN chans : IncomingDataChannel(c)
    \/ \E c \in DOMAIN chans, e \in E : ChannelOpen(c, e)
    \/ \E c \in DOMAIN chans, e \in E : ChannelCloseEvent(c, e)

SpecStale == InitStale /\ [][NextStale]_vars

\* Flow.  One file of two chunks sent by endpoint 1 on an open channel, with
\* the transport taking the buffered bytes at its own pace.
FlowSizes == {SIZE_CAP}

InitFlow ==
    /\ InitCommon
    /\ pending = [e \in E |-> NoPending]
    /\ ids = [e \in E |-> <<48 + e>>]
    /\ budget = [NoBudget EXCEPT !.files = MaxSent,
                                 !.est = [e \in E |-> IF e = 1 THEN MaxEstablish ELSE 0]]

NextFlow ==
    \/ Render(1)
    \/ EstablishConnection(1)
    \/ \E s \in FlowSizes : QueueFile(1, s)
    \/ \E e \in E : OfferCreated(e)
    \/ \E e \in E : HandleFileOffer(e)
    \/ \E e \in E : HandleFileAnswer(e)
    \/ \E e \in E : TransportConnecting(e)
    \/ \E e \in E : TransportConnected(e)
    \/ \E c \in DOMAIN chans : IncomingDataChannel(c)
    \/ \E c \in DOMAIN chans, e \in E : ChannelOpen(c, e)
    \/ \E c \in DOMAIN chans, e \in E : BufferDrained(c, e)
    \/ \E c \in DOMAIN chans, e \in E : Deliver(c, e)
    \/ \E k \in DOMAIN files : ReadLoaded(k)
    \/ \E k \in DOMAIN files : ReadNextChunk(k)

SpecFlow == InitFlow /\ [][NextFlow]_vars

\* Closed channel.  The application at endpoint 1 calls establishConnection
\* and hands one file to queueFile; the data channel may break once.  Every
\* step but the application's and the break is taken if it stays possible.
InitClosed ==
    /\ InitCommon
    /\ pending = [e \in E |-> NoPending]
    /\ ids = [e \in E |-> <<48 + e>>]
    /\ budget = [NoBudget EXCEPT !.files = MaxSent, !.faults = MaxFaults,
                                 !.est = [e \in E |-> IF e = 1 THEN MaxEstablish ELSE 0]]

NextClosed ==
    \/ EstablishConnection(1)
    \/ \E s \in BrokenSizes : QueueFile(1, s)
    \/ \E c \in DOMAIN chans : ChannelError(c, 1)
    \/ Render(1)
    \/ \E e \in E : OfferCreated(e)
    \/ \E e \in E : HandleFileOffer(e)
    \/ \E e \in E : HandleFileAnswer(e)
    \/ \E e \in E : TransportConnecting(e)
    \/ \E e \in E : TransportConnected(e)
    \/ \E c \in DOMAIN chans : IncomingDataChannel(c)
    \/ \E c \in DOMAIN chans, e \in E : ChannelOpen(c, e)
    \/ \E c \in DOMAIN chans, e \in E : Deliver(c, e)
    \/ \E k \in DOMAIN files : ReadLoaded(k)
    \/ \E k \in DOMAIN files : ReadNextChunk(k)

FairClosed ==
    /\ WF_vars(Render(1))
    /\ \A e \in E : WF_vars(OfferCreated(e))
    /\ \A e \in E : WF_vars(HandleFileOffer(e))
    /\ \A e \in E : WF_vars(HandleFileAnswer(e))
    /\ \A e \in E : WF_vars(TransportConnecting(e))
    /\ \A e \in E : WF_vars(TransportConnected(e))
    /\ WF_vars(\E c \in DOMAIN chans : IncomingDataChannel(c))
    /\ \A e \in E : WF_vars(\E c \in DOMAIN chans : ChannelOpen(c, e))
    /\ \A e \in E : WF_vars(\E c \in DOMAIN chans : Deliver(c, e))
    /\ WF_vars(\E k \in DOMAIN files : ReadLoaded(k))
    /\ WF_vars(\E k \in DOMAIN files : ReadNextChunk(k))

SpecClosed == InitClosed /\ [][NextClosed]_vars /\ FairClosed

\* Candidates.  One negotiation started by endpoint "1" after the reset
\* effect's timer, with the ICE candidates both connections gather.
InitIce ==
    /\ InitCommon
    /\ pending = [e \in E |-> NoPending]
    /\ ids = [e \in E |-> <<48 + e>>]
    /\ budget = [NoBudget EXCEPT !.cands = MaxCands,
                                 !.est = [e \in E |-> IF e = 1 THEN MaxEstablish ELSE 0]]

NextIce ==
    \/ \E e \in E : Render(e)
    \/ \E e \in E : EstablishConnection(e)
    \/ \E e \in E : OfferCreated(e)
    \/ \E e \in E : HandleFileOffer(e)
    \/ \E e \in E : HandleFileAnswer(e)
    \/ \E e \in E : IceCandidate(e)
    \/ \E e \in E : HandleFileIceCandidate(e)
    \/ \E e \in E : TransportConnecting(e)
    \/ \E e \in E : TransportConnected(e)
    \/ \E c \in DOMAIN chans : IncomingDataChannel(c)
    \/ \E c \in DOMAIN chans : \E e \in E : ChannelOpen(c, e)

SpecIce == InitIce /\ [][NextIce]_vars

\* Call.  The call hook at one endpoint: the application starts or accepts a
\* call and may end it; the peer sends descriptions and candidates in any
\* order; setRemoteDescription and addIceCandidate may fail.
InitCall ==
    /\ InitCommon
    /\ pending = [e \in E |-> NoPending]
    /\ ids = [e \in E |-> <<48 + e>>]
    /\ budget = [NoBudget EXCEPT !.cands = MaxCands, !.descs = MaxDescriptions,
                                 !.faults = MaxFaults, !.cleanups = MaxEstablish]

NextCall ==
    \/ CallInitializePeerConnection
    \/ CallCleanup
    \/ HandleDescription
    \/ RemoteDescriptionSet
    \/ RemoteDescriptionFailed
    \/ DrainStep
    \/ HandleIceCandidate

SpecCall == InitCall /\ [][NextCall]_vars

\* Receiver.  The hooks once the reset effect's timer has run; endpoint 1
\* establishes the session, and on the open channel either end receives
\* frames of a remote sender in any order.
InitReceiver ==
    /\ InitCommon
    /\ pending = [e \in E |-> NoPending]
    /\ ids = [e \in E |-> <<48 + e>>]
    /\ budget = [NoBudget EXCEPT !.frames = MaxFrames,
                                 !.est = [e \in E |-> IF e = 1 THEN MaxEstablish ELSE 0]]

NextReceiver ==
    \/ \E e \in E : EstablishConnection(e)
    \/ \E e \in E : OfferCreated(e)
    \/ \E e \in E : HandleFileOffer(e)
    \/ \E e \in E : HandleFileAnswer(e)
    \/ \E e \in E : TransportConnecting(e)
    \/ \E e \in E : TransportConnected(e)
    \/ \E c \in DOMAIN chans : IncomingDataChannel(c)
    \/ \E c \in DOMAIN chans, e \in E : ChannelOpen(c, e)
    \/ \E c \in DOMAIN chans, e \in E, frame \in RemoteFrames : RemoteFrame(c, e, frame)
    \/ \E c \in DOMAIN chans, e \in E : Deliver(c, e)

SpecReceiver == InitReceiver /\ [][NextReceiver]_vars

\* Codec.  As Receiver, with a remote sender that also puts binary frames
\* on the channel whose declared id length exceeds the bytes that follow:
\* an empty frame, a length byte alone, and an id cut short.
BinaryFrame(bytes) ==
    [kind |-> "binary", fileId |-> <<>>, metadata |-> NoMeta, data |-> bytes]

MalformedFrames ==
    { BinaryFrame(<<>>), BinaryFrame(<<Len(FileIdOf(1))>>),
      BinaryFrame(<<Len(FileIdOf(1)) + 1>> \o TextEncode(FileIdOf(1))) }

CodecFrames ==
    MalformedFrames \cup
        { FileStartFrame(FileIdOf(1), MetaOf(1, SIZE_CAP)), ChunkFrame(FileIdOf(1), <<11>>) }

NextCodec ==
    \/ \E e \in E : EstablishConnection(e)
    \/ \E e \in E : OfferCreated(e)
    \/ \E e \in E : HandleFileOffer(e)
    \/ \E e \in E : HandleFileAnswer(e)
    \/ \E e \in E : TransportConnecting(e)
    \/ \E e \in E : TransportConnected(e)
    \/ \E c \in DOMAIN chans : IncomingDataChannel(c)
    \/ \E c \in DOMAIN chans, e \in E : ChannelOpen(c, e)
    \/ \E c \in DOMAIN chans, frame \in CodecFrames : RemoteFrame(c, 1, frame)
    \/ \E c \in DOMAIN chans, e \in E : Deliver(c, e)

SpecCodec == InitReceiver /\ [][NextCodec]_vars

\* Framing.  As Receiver, with a remote sender running the same encoder on
\* ids of one and two code units, with one-byte and two-byte characters, and
\* on payloads that are empty or whose bytes read like a length and an id.
TwoByteChar == 233
FramingIds == { FileIdOf(1), <<TwoByteChar>>, <<TwoByteChar, 48 + 1>> }
FramingPayloads == { <<>>, <<1, 48 + 1>> }

FramingFrames ==
    { ChunkFrame(id, chunk) : id \in FramingIds, chunk \in FramingPayloads }
        \cup { FileStartFrame(id, MetaOf(1, SIZE_CAP)) : id \in {<<TwoByteChar>>, <<TwoByteChar, 48 + 1>>} }

NextFraming ==
    \/ \E e \in E : EstablishConnection(e)
    \/ \E e \in E : OfferCreated(e)
    \/ \E e \in E : HandleFileOffer(e)
    \/ \E e \in E : HandleFileAnswer(e)
    \/ \E e \in E : TransportConnecting(e)
    \/ \E e \in E : TransportConnected(e)
    \/ \E c \in DOMAIN chans : IncomingDataChannel(c)
    \/ \E c \in DOMAIN chans, e \in E : ChannelOpen(c, e)
    \/ \E c \in DOMAIN chans, frame \in FramingFrames : RemoteFrame(c, 1, frame)
    \/ \E c \in DOMAIN chans, e \in E : Deliver(c, e)

SpecFraming == InitReceiver /\ [][NextFraming]_vars

\* Liveness.  The hooks once the reset effect's timer has run; the
\* application hands files to queueFile at either endpoint and nothing
\* fails.  Every step but the application's is taken if it stays possible:
\* signaling messages are delivered, the transport connects, channels open,
\* renders, reads and timers happen.
InitLive ==
    /\ InitCommon
    /\ pending = [e \in E |-> NoPending]
    /\ ids = [e \in E |-> <<48 + e>>]
    /\ budget = [NoBudget EXCEPT !.files = MaxFiles]

NextLive ==
    \/ \E e \in E, s \in QueueSizes : QueueFile(e, s)
    \/ \E e \in E : Render(e)
    \/ \E e \in E : OfferCreated(e)
    \/ \E e \in E : HandleFileOffer(e)
    \/ \E e \in E : HandleFileAnswer(e)
    \/ \E e \in E : TransportConnecting(e)
    \/ \E e \in E : TransportConnected(e)
    \/ \E c \in DOMAIN chans : IncomingDataChannel(c)
    \/ \E c \in DOMAIN chans, e \in E : ChannelOpen(c, e)
    \/ \E c \in DOMAIN chans, e \in E : Deliver(c, e)
    \/ \E k \in DOMAIN files : ReadLoaded(k)
    \/ \E k \in DOMAIN files : ReadNextChunk(k)

FairLive ==
    /\ \A e \in E : WF_vars(Render(e))
    /\ \A e \in E : WF_vars(OfferCreated(e))
    /\ \A e \in E : WF_vars(HandleFileOffer(e))
    /\ \A e \in E : WF_vars(HandleFileAnswer(e))
    /\ \A e \in E : WF_vars(TransportConnecting(e))
    /\ \A e \in E : WF_vars(TransportConnected(e))
    /\ WF_vars(\E c \in DOMAIN chans : IncomingDataChannel(c))
    /\ \A e \in E : WF_vars(\E c \in DOMAIN chans : ChannelOpen(c, e))
    /\ \A e \in E : WF_vars(\E c \in DOMAIN chans : Deliver(c, e))
    /\ WF_vars(\E k \in DOMAIN files : ReadLoaded(k))
    /\ WF_vars(\E k \in DOMAIN files : ReadNextChunk(k))

SpecLive == InitLive /\ [][NextLive]_vars /\ FairLive

\* ------------------------------------------------ what is observed
\* The file id a frame carries: a chunk frame's is decoded from its prefix.
FrameId(frame) == IF frame.kind = "binary" THEN DecodeFileId(frame.data) ELSE frame.fileId

\* The sequences of frames sent, one per channel and sending end.
Logs == { chans[c].log[e] : c \in DOMAIN chans, e \in E }

\* In the sequence L no file-end of file id f lies at positions i+1..j-1.
OpenBetween(L, f, i, j) ==
    \A m \in (i + 1)..(j - 1) : ~(L[m].kind = "file-end" /\ L[m].fileId = f)

\* The chunk frames of file k sent so far, over all channels.
ChunkCount(k) ==
    Cardinality(UNION { { <<c, e, i>> : i \in { j \in DOMAIN chans[c].log[e] :
                                                  /\ chans[c].log[e][j].kind = "binary"
                                                  /\ FrameId(chans[c].log[e][j]) = FileIdOf(k) } } :
                        c \in DOMAIN chans, e \in E })

\* The sender's progress record of file k.
SenderRecord(k) == transferProgress[files[k].owner][FileIdOf(k)]

\* File k has a progress record at its sender.
HasRecord(k) == FileIdOf(k) \in DOMAIN transferProgress[files[k].owner]

\* The frames of file k sent on channel c by its owner.
FramesOf(c, k) ==
    LET L == chans[c].log[files[k].owner]
    IN  { i \in DOMAIN L : FrameId(L[i]) = FileIdOf(k) }

\* All frames of file k went out on one channel, which both ends have open.
OnOneOpenChannel(k) ==
    \E c \in DOMAIN chans :
        /\ \A e \in E : chans[c].st[e] = "open"
        /\ FramesOf(c, k) # {}
        /\ \A d \in DOMAIN chans \ {c} : FramesOf(d, k) = {}

\* The receiving end has handled every frame sent to it on its open channels.
AllDelivered(e) ==
    \A c \in DOMAIN chans :
        chans[c].st[e] = "open" => chans[c].rcv[e] = Len(chans[c].log[Other(e)])

\* The files handed to onFileReceived at e that carry the id of file k.
ReceivedOf(e, k) == { i \in DOMAIN received[e] : received[e][i].fileId = FileIdOf(k) }

\* The endpoint whose id is the smaller string, if any.
Smaller == { e \in E : StrLess(ids[e], ids[Other(e)]) }

\* Nothing scheduled at endpoint e is still to run: no offer being created,
\* no timer, no signaling message in flight, no read or chunk timer of its
\* files, no channel of its own still opening.
Settled(e) ==
    /\ pending[e] = NoPending
    /\ \A x \in E : net[x] = <<>>
    /\ \A k \in DOMAIN files : files[k].owner = e => tasks[k].st \notin {"reading", "timer"}
    /\ \A c \in DOMAIN chans : chans[c].st[e] # "connecting"

\* File k went through the send queue of its owner.
Queued(k) == tasks[k].via = "queue"

\* In the frames A arrived so far, the file-start of id f that the frame at
\* position j answers to: the last one before j with no file-end of f after
\* it; 0 if there is none.
LastStart(A, f, j) ==
    LET S == { i \in 1..(j - 1) : /\ A[i].kind = "file-start" /\ A[i].fileId = f
                                  /\ OpenBetween(A, f, i, j) }
    IN  IF S = {} THEN 0 ELSE CHOOSE i \in S : \A x \in S : x <= i

\* The payloads of the chunk frames tagged f at positions i+1..j-1 of A,
\* joined in arrival order.
RECURSIVE PayloadsBetween(_, _, _, _)
PayloadsBetween(A, f, i, j) ==
    IF j - 1 <= i THEN <<>>
    ELSE PayloadsBetween(A, f, i, j - 1)
           \o (IF A[j - 1].kind = "binary" /\ FrameId(A[j - 1]) = f
               THEN DecodePayload(A[j - 1].data) ELSE <<>>)

\* What the first n frames of A should have handed to onFileReceived: one
\* file per file-end that answers to a file-start.
RECURSIVE ExpectedReceived(_, _)
ExpectedReceived(A, n) ==
    IF n = 0 THEN <<>>
    ELSE LET f == A[n].fileId
             i == LastStart(A, f, n)
         IN  IF A[n].kind = "file-end" /\ i # 0
             THEN Append(ExpectedReceived(A, n - 1),
                         [fileId |-> f, name |-> A[i].metadata.name,
                          type |-> A[i].metadata.type,
                          lastModified |-> A[i].metadata.lastModified,
                          bytes |-> PayloadsBetween(A, f, i, n),
                          metadata |-> A[i].metadata])
             ELSE ExpectedReceived(A, n - 1)

\* -------------------------------------------------------- properties
\* C1: on every data channel, between the file-start and the file-end of a
\* file id every frame the sender emitted carries that file id: the frames of
\* two files are never interleaved, also when queueFile is called during an
\* active transfer.
C1_NoInterleaving ==
    \A L \in Logs : \A i \in DOMAIN L, j \in DOMAIN L :
        (i < j /\ L[i].kind = "file-start" /\ OpenBetween(L, L[i].fileId, i, j))
            => FrameId(L[j]) = L[i].fileId

\* C2: connectionState is 'connected' at an endpoint only while its current
\* peer connection exists and has both its local and its remote description.
C2_ConnectedHasDescriptions ==
    \A e \in E :
        connectionState[e] = "connected"
            => pc[e].gen # 0 /\ pc[e].local /\ pc[e].remote # 0

\* Both endpoints report 'connected', on connections that negotiated with
\* each other.
C2_Witness ==
    /\ \A e \in E : connectionState[e] = "connected" /\ pc[e].state = "connected"
    /\ Paired(1)

\* C3: the endpoint whose id is the smaller string is the initiator and the
\* other is not; the other creates no data channel and emits no offer; the
\* initiator begins one offer per establishConnection call that passed its
\* guards; so when both have called once and the offer was created, exactly
\* one offer has been emitted, by the endpoint with the smaller id.
C3_OneOfferFromSmallerId ==
    /\ Cardinality(Smaller) = 1
    /\ \A e \in E : isInitiator[e] => e \in Smaller
    /\ \A e \in E \ Smaller :
          hist.created[e] = 0 /\ hist.offers[e] = 0 /\ pending[e].offers = <<>>
    /\ \A e \in Smaller :
          /\ hist.created[e] = hist.passed[e]
          /\ hist.offers[e] + hist.threw[e] + Len(pending[e].offers) = hist.passed[e]
    /\ (/\ \A e \in E : hist.passed[e] = 1 /\ pending[e].offers = <<>>
                          /\ hist.threw[e] = 0)
          => /\ \A e \in Smaller : hist.offers[e] = 1
             /\ \A e \in E \ Smaller : hist.offers[e] = 0

\* Both endpoints called establishConnection before either had heard of the
\* other, ids "10" and "2" (the smaller string is not the smaller number),
\* and the one offer is in flight to the endpoint with the larger id.
C3_Witness ==
    /\ ids[1] = <<49, 48>> /\ ids[2] = <<50>>
    /\ \A e \in E : hist.passed[e] = 1 /\ pending[e].offers = <<>>
    /\ hist.offers = [e \in E |-> IF e \in Smaller THEN 1 ELSE 0]
    /\ \E e \in Smaller : net[Other(e)] = <<[type |-> "offer", gen |-> pc[e].gen, userId |-> ids[e]]>>
    /\ \A e \in Smaller : net[e] = <<>>

\* The file-start of file k has been emitted on some channel.
Started(k) ==
    \E L \in Logs : \E i \in DOMAIN L :
        L[i].kind = "file-start" /\ L[i].fileId = FileIdOf(k)

\* C4: a file that queueFile accepted into the send queue, at either
\* endpoint, is eventually started, when signaling messages are delivered
\* and the transport connects.
C4_QueuedFileIsStarted ==
    \A k \in 1..MaxFiles :
        (k \in DOMAIN files /\ Queued(k)) ~> (k \in DOMAIN files /\ Started(k))

\* C5: while the session is connecting or connected, no step creates another
\* data channel or begins another offer at that endpoint.
C5_NoSecondNegotiation ==
    [][\A e \in E :
          connectionState[e] \in {"connecting", "connected"}
              => /\ hist'.created[e] = hist.created[e]
                 /\ Len(pending'[e].offers) <= Len(pending[e].offers)]_vars

\* C6: the send queue is first in, first out, and the file-start of a file
\* taken from the queue is emitted only after the file-end of the file
\* started before it on the channel.
C6_QueueInOrder ==
    /\ \A e \in E : \A i \in DOMAIN sendQueue[e], j \in DOMAIN sendQueue[e] :
          i < j => sendQueue[e][i] < sendQueue[e][j]
    /\ \A k \in DOMAIN files : \A q \in DOMAIN sendQueue[files[k].owner] :
          (Queued(k) /\ tasks[k].st # "none") => k < sendQueue[files[k].owner][q]
    /\ \A L \in Logs : \A i \in DOMAIN L, j \in DOMAIN L :
          (/\ i < j
           /\ L[i].kind = "file-start" /\ L[j].kind = "file-start"
           /\ Queued(Len(L[j].fileId)))
              => ~OpenBetween(L, L[i].fileId, i, j)

\* C7: once a file taken from the queue has failed to send and everything
\* scheduled has run, with the channel open, no file is left in the queue:
\* the files behind the failed one were started.
C7_FailureAdvancesQueue ==
    \A e \in E :
        (/\ Settled(e)
         /\ ChannelIsOpen(e)
         /\ \E k \in DOMAIN files :
               /\ files[k].owner = e /\ Queued(k)
               /\ tasks[k].st \in {"threw", "refused"})
            => sendQueue[e] = <<>>

\* C8: a file of size S sent over a single open data channel: with every
\* chunk sent the sender's transferred count strictly increases and stays
\* within S, a record that is completed has transferred S; what the receiver
\* hands to onFileReceived for it is exactly the sender's bytes, S of them,
\* with its name, type and lastModified; and once the sender has completed
\* and the receiver has handled all frames, the file was handed over once.
C8_Exact ==
    \A k \in DOMAIN files :
        LET e == Other(files[k].owner)
            S == files[k].size
        IN  /\ (HasRecord(k) /\ SenderRecord(k).status = "completed")
                    => SenderRecord(k).transferred = S
            /\ OnOneOpenChannel(k)
                    => /\ \A i \in ReceivedOf(e, k) :
                             /\ received[e][i].bytes = FileBytes(k, S)
                             /\ Len(received[e][i].bytes) = S
                             /\ received[e][i].name = FileName(k)
                             /\ received[e][i].type = FileType(k)
                             /\ received[e][i].lastModified = FileLastModified(k)
                       /\ (/\ HasRecord(k) /\ SenderRecord(k).status = "completed"
                           /\ AllDelivered(e))
                              => Cardinality(ReceivedOf(e, k)) = 1

C8_RoundTrip ==
    /\ []C8_Exact
    /\ [][\A k \in DOMAIN files :
            ChunkCount(k)' > ChunkCount(k)
                => /\ SenderRecord(k)'.transferred > SenderRecord(k).transferred
                   /\ SenderRecord(k)'.transferred <= files[k].size]_vars

\* A file of SIZE_CAP bytes, more than one chunk, sent on one channel, has
\* been completed by the sender and handed over by the receiver.
C8_Witness ==
    \E k \in DOMAIN files :
        /\ files[k].size = SIZE_CAP
        /\ ChunkCount(k) > 1
        /\ OnOneOpenChannel(k)
        /\ HasRecord(k) /\ SenderRecord(k).status = "completed"
        /\ ReceivedOf(Other(files[k].owner), k) # {}

\* C9: at the receiver, each file-end(f) that follows a file-start(f) hands
\* exactly one file to onFileReceived, the payloads of the chunk frames
\* tagged f since that file-start joined in arrival order, with the
\* announced name, type and lastModified, and nothing else is handed over (a
\* repeated file-end delivers nothing); right after such a file-end the
\* record of f is completed at 100% and no reassembly entry for f exists;
\* an entry exists exactly for the ids whose file-start has had no file-end.
C9_Reassembly ==
    \A e \in E :
        LET A == hist.arrived[e]
            n == Len(A)
        IN  /\ received[e] = ExpectedReceived(A, n)
            /\ \A f \in { A[i].fileId : i \in { x \in DOMAIN A : A[x].kind # "binary" } } :
                  f \in DOMAIN receivingFiles[e] <=> LastStart(A, f, n + 1) # 0
            /\ (n > 0 /\ A[n].kind = "file-end" /\ LastStart(A, A[n].fileId, n) # 0)
                  => /\ A[n].fileId \notin DOMAIN receivingFiles[e]
                     /\ transferProgress[e][A[n].fileId].status = "completed"
                     /\ transferProgress[e][A[n].fileId].percentage = 100
                     /\ transferProgress[e][A[n].fileId].direction = "receiving"

\* A file-start, two chunk frames of the file, the second-sent one first,
\* and the file-end have arrived, and one file of three bytes was handed over.
C9_Witness ==
    \E e \in E :
        /\ Len(hist.arrived[e]) = 4
        /\ hist.arrived[e][1].kind = "file-start"
        /\ hist.arrived[e][2] = ChunkFrame(hist.arrived[e][1].fileId, <<12, 13>>)
        /\ hist.arrived[e][3] = ChunkFrame(hist.arrived[e][1].fileId, <<11>>)
        /\ hist.arrived[e][4] = FileEndFrame(hist.arrived[e][1].fileId)
        /\ Len(received[e]) = 1
        /\ received[e][1].bytes = <<12, 13, 11>>

\* C11: an establishConnection call that passes its guards while the
\* current peer connection is one the transport reported failed leaves the
\* session with a newly created peer connection, and the data channel it
\* creates belongs to that new connection.
C11_RetryOnNewConnection ==
    [][\A e \in E :
          (pc[e].gen # 0 /\ pc[e].state = "failed" /\ hist'.passed[e] > hist.passed[e])
              => /\ pc'[e].gen # pc[e].gen
                 /\ pc'[e].state # "failed"
                 /\ hist'.created[e] > hist.created[e]
                       => chans'[dataChannel'[e]].gen # pc[e].gen]_vars

\* The candidates the drain loops handed to addIceCandidate, in that order.
DrainedCandidates ==
    LET drained == SelectSeq(call.attempts, LAMBDA a : a.queued)
    IN  [i \in 1..Len(drained) |-> drained[i].cand]

\* C12: the candidates queued before the remote description was set are
\* handed to addIceCandidate in their arrival order and only once it is set:
\* what the drain loops applied, followed by what is still queued, is the
\* arrival sequence (so a failed candidate is not queued again), and when
\* the remote description is set and no drain loop is running the queue is
\* empty (so a failure did not stop the loop).
C12_DrainInArrivalOrder ==
    /\ DrainedCandidates \o call.iceCandidateQueue = call.enqueued
    /\ DrainedCandidates # <<>> => call.remote
    /\ (call.remote /\ call.drains = 0) => call.iceCandidateQueue = <<>>

\* Two candidates were queued, the first failed to apply and the second was
\* applied after it, and the drain is over.
C12_Witness ==
    /\ call.remote /\ call.drains = 0
    /\ Len(call.enqueued) >= 2
    /\ Len(call.attempts) >= 2
    /\ call.attempts[1].queued /\ ~call.attempts[1].ok
    /\ call.attempts[2].queued /\ call.attempts[2].ok

\* C13: in the file-transfer session no candidate of the peer is dropped
\* while the session has a peer connection or is setting one up: each is
\* handed to addIceCandidate at once or after the remote description is set.
C13_NoCandidateDropped ==
    \A e \in E : hist.dropped[e] = 0

\* C14: a queueFile call with a file over the cap returns false and changes
\* nothing of the session (no record, no queue entry, no frame, no
\* negotiation); a call with a file of exactly the cap returns true and the
\* file is queued or a record is created for it.
C14_OversizeRejected ==
    [][Len(files') > Len(files) =>
          LET f == files'[Len(files')]
          IN  /\ f.size > SIZE_CAP =>
                    /\ ~f.returned
                    /\ UNCHANGED <<transferProgress, sendQueue, chans, net, pc, pcGen,
                                   dataChannel, connectionState, isChannelReady,
                                   isInitiator, pending, hist, receivingFiles, received>>
              /\ f.size = SIZE_CAP =>
                    /\ f.returned
                    /\ \/ sendQueue'[f.owner] = Append(sendQueue[f.owner], Len(files'))
                       \/ FileIdOf(Len(files')) \in DOMAIN transferProgress'[f.owner]]_vars

\* A file over the cap was refused.
C14_Witness ==
    \E k \in 1..Len(files) : files[k].size > SIZE_CAP /\ ~files[k].returned

C16_PercentageCapped ==
    \A e \in E : \A id \in DOMAIN transferProgress[e] :
        LET p == transferProgress[e][id]
        IN  p.direction = "receiving" => p.percentage # Infinity /\ p.percentage <= 100

\* The step handles a file-start frame for id at e, which begins a record.
BeginsRecord(e, id) ==
    /\ Len(hist'.arrived[e]) > Len(hist.arrived[e])
    /\ LET frame == hist'.arrived[e][Len(hist'.arrived[e])]
       IN  frame.kind = "file-start" /\ frame.fileId = id

\* C17: every reported value of transferred lies between 0 and the record's
\* fileSize, and within one record (sending or receiving, up to and
\* including completion) the reported values never decrease.
C17_TransferredBounded ==
    [][\A e \in E : \A id \in DOMAIN transferProgress'[e] :
          LET p == transferProgress'[e][id]
          IN  /\ 0 <= p.transferred /\ p.transferred <= p.fileSize
              /\ (id \in DOMAIN transferProgress[e] /\ ~BeginsRecord(e, id))
                    => p.transferred >= transferProgress[e][id].transferred]_vars

\* C18: the status of a record only moves forward: a failed record stays
\* failed and a completed record stays completed, whatever happens next (a
\* file-start frame begins a record).
C18_StatusForward ==
    [][\A e \in E : \A id \in DOMAIN transferProgress[e] :
          LET p == transferProgress[e][id]
          IN  (p.status \in {"failed", "completed"} /\ ~BeginsRecord(e, id))
                  => /\ id \in DOMAIN transferProgress'[e]
                     /\ transferProgress'[e][id].status = p.status]_vars

\* A sending record failed after part of the file was sent, and the channel
\* it was sent on has been closed since.
C18_Witness ==
    \E k \in 1..Len(files) :
        /\ HasRecord(k) /\ SenderRecord(k).status = "failed"
        /\ SenderRecord(k).transferred > 0
        /\ ~ChannelIsOpen(files[k].owner)

\* The step handles a file-end frame at e for an id without a reassembly entry.
UnknownFileEnd(e) ==
    /\ Len(hist'.arrived[e]) > Len(hist.arrived[e])
    /\ LET frame == hist'.arrived[e][Len(hist'.arrived[e])]
       IN  frame.kind = "file-end" /\ frame.fileId \notin DOMAIN receivingFiles[e]

\* C19: handling file-end for a fileId that has no reassembly entry changes
\* nothing: no file is handed over, no record is created or changed, and
\* the session and the other entries stay as they were.
C19_UnknownFileEndNoOp ==
    [][\A e \in E : UnknownFileEnd(e) =>
          UNCHANGED <<received, transferProgress, receivingFiles, connectionState,
                      isChannelReady, pc, dataChannel, sendQueue, net, pending>>]_vars

\* A file-end was handled for an id whose file-start never arrived, while
\* another file was being reassembled.
C19_Witness ==
    \E e \in E : \E i \in 1..Len(hist.arrived[e]) :
        /\ hist.arrived[e][i].kind = "file-end"
        /\ \A j \in 1..(i - 1) : ~(/\ hist.arrived[e][j].kind = "file-start"
                                     /\ hist.arrived[e][j].fileId = hist.arrived[e][i].fileId)
        /\ receivingFiles[e] # EmptyMap

\* C20: a frame is only ever sent on a channel whose readyState at the
\* sending end is open (in its onopen handler it already is), and a sendFile call that finds no open channel
\* returns false having sent no frame and created no record.
C20_SendOnlyWhenOpen ==
    [][/\ \A c \in DOMAIN chans : \A e \in E :
             Len(chans'[c].log[e]) > Len(chans[c].log[e]) => chans'[c].st[e] = "open"
       /\ \A k \in DOMAIN tasks :
             (tasks'[k].st = "refused" /\ tasks[k].st # "refused")
                 => /\ ~ChannelIsOpen(files[k].owner)
                    /\ \A c \in DOMAIN chans : chans'[c].log = chans[c].log
                    /\ transferProgress' = transferProgress]_vars

\* sendFile was called for a queued file after the channel had closed and
\* refused it, while an earlier file had been started on the channel.
C20_Witness ==
    \E k \in DOMAIN tasks :
        /\ tasks[k].st = "refused"
        /\ ~HasRecord(k)
        /\ \E j \in DOMAIN tasks : j # k /\ HasRecord(j)

\* Endpoint e holds no session resource: no peer connection, no data
\* channel, none of its channel ends open or opening, not ready, disconnected,
\* nothing queued and nothing being reassembled.
Released(e) ==
    /\ pc[e] = NoPc
    /\ dataChannel[e] = 0
    /\ \A c \in DOMAIN chans : chans[c].st[e] \notin {"connecting", "open"}
    /\ ~isChannelReady[e]
    /\ connectionState[e] = "disconnected"
    /\ sendQueue[e] = <<>>
    /\ receivingFiles[e] = EmptyMap

\* The session resources of endpoint e.
SessionOf(e) ==
    <<pc[e], dataChannel[e], [c \in DOMAIN chans |-> chans[c].st[e]], isChannelReady[e],
      connectionState[e], sendQueue[e], receivingFiles[e]>>

\* C21: a cleanup() call, in whatever state it is made, leaves the calling
\* endpoint (the other one is not touched) with every session resource
\* released.
C21_CleanupReleases ==
    [][budget'.cleanups < budget.cleanups
          => \E e \in E : Released(e)' /\ SessionOf(Other(e))' = SessionOf(Other(e))]_vars

\* cleanup() was called at endpoint 1 while a file was waiting in its queue
\* and a peer connection and channel existed.
C21_Witness ==
    /\ budget.cleanups < MaxFaults
    /\ Released(1)
    /\ hist.created[1] > 0
    /\ \E k \in DOMAIN files : files[k].owner = 1 /\ tasks[k].st = "none"

\* C22: the teardown run by the cooldown timer after a 'failed' report leaves
\* the send queue and the reassembly map of its endpoint empty, as cleanup()
\* does.
C22_CooldownCancelsWork ==
    [][\A e \in E : pending'[e].cooldown < pending[e].cooldown
                        => sendQueue'[e] = <<>> /\ receivingFiles'[e] = EmptyMap]_vars

\* C23: a chunk frame or file-end of a file is only ever sent on the channel
\* its file-start was sent on: a read completion or next-chunk step left
\* over from before a teardown sends nothing on a channel of a later round.
C23_StaleStepSendsNothing ==
    \A c \in DOMAIN chans : \A e \in E :
        LET L == chans[c].log[e]
        IN  \A i \in DOMAIN L :
                L[i].kind # "file-start"
                    => \E j \in 1..(i - 1) :
                          L[j].kind = "file-start" /\ L[j].fileId = FrameId(L[i])

\* C24: no chunk frame is sent on a channel end whose bufferedAmount is at
\* or above the threshold: after a chunk that leaves it there, the next chunk
\* waits until it has dropped below.
C24_NoChunkOverThreshold ==
    [][\A c \in DOMAIN chans : \A e \in E :
          (/\ Len(chans'[c].log[e]) > Len(chans[c].log[e])
           /\ chans'[c].log[e][Len(chans'[c].log[e])].kind = "binary")
              => chans[c].bufferedAmount[e] < BUFFER_THRESHOLD]_vars

\* File k waits in the send queue of its owner, whose current data channel
\* has closed, while connectionState reads 'connected'.
StuckBehindClosedChannel(k) ==
    /\ k \in DOMAIN files
    /\ LET e == files[k].owner
       IN  /\ \E i \in 1..Len(sendQueue[e]) : sendQueue[e][i] = k
           /\ dataChannel[e] # 0 /\ chans[dataChannel[e]].st[e] = "closed"
           /\ connectionState[e] = "connected"

\* C25: a file handed to queueFile after the data channel closed does not
\* stay in the send queue forever with connectionState reading 'connected':
\* a new negotiation round takes the session out of that state.
C25_ClosedChannelRenegotiates ==
    \A k \in 1..MaxSent : StuckBehindClosedChannel(k) ~> ~StuckBehindClosedChannel(k)

\* The transport of endpoint e reports s on a connection it had not
\* reported s on before.
Reports(e, s) == pc[e].gen # 0 /\ pc[e].state # s /\ pc'[e].gen = pc[e].gen /\ pc'[e].state = s

\* The teardown scheduled at endpoint e runs.
CooldownRuns(e) == pending'[e].cooldown < pending[e].cooldown

\* C26: a transport 'failed' report makes connectionState 'failed' and
\* schedules the teardown; when the teardown runs, the peer connection and
\* the channel are closed and null, isChannelReady is false and
\* connectionState is 'disconnected', which the guard of establishConnection
\* lets pass; a transport 'disconnected' report on a connected session makes
\* connectionState 'disconnected' and keeps peer connection and channel.
C26_FailureTearsDown ==
    [][\A e \in E :
          /\ Reports(e, "failed")
                => /\ connectionState'[e] = "failed"
                   /\ pending'[e].cooldown > pending[e].cooldown
          /\ CooldownRuns(e)
                => /\ pc'[e] = NoPc /\ dataChannel'[e] = 0
                   /\ \A c \in DOMAIN chans :
                         ChanGen(chans[c], e) = pc[e].gen /\ pc[e].gen # 0
                             => chans'[c].st[e] \notin {"connecting", "open"}
                   /\ ~isChannelReady'[e]
                   /\ connectionState'[e] = "disconnected"
                   /\ connectionState'[e] \notin {"connected", "connecting"}
          /\ Reports(e, "disconnected")
                => /\ connectionState'[e] = "disconnected"
                   /\ pc'[e].gen = pc[e].gen /\ dataChannel'[e] = dataChannel[e]
                   /\ chans' = chans /\ pending' = pending]_vars

\* A session that had its channel ready is back to idle after a failure:
\* the fault was reported, the teardown has run, nothing else tears down.
C26_Witness ==
    \E e \in E :
        /\ pcGen[e] > 0 /\ pc[e] = NoPc /\ dataChannel[e] = 0
        /\ budget.faults = 0 /\ pending[e].cooldown = 0
        /\ connectionState[e] = "disconnected" /\ ~isChannelReady[e]
        /\ \E c \in DOMAIN chans : chans[c].st[e] = "closing" /\ chans[c].log[e] = <<>>

\* C27: the teardown scheduled by a 'failed' report runs only on a peer
\* connection on which restartIce() was called before (iceRestarts counts
\* those calls; the file-transfer hook makes none).
C27_RestartBeforeTeardown ==
    [][\A e \in E : CooldownRuns(e) /\ pc[e].gen # 0 => pc[e].iceRestarts > 0]_vars

\* Endpoint e handles the message at the head of its signaling queue, of
\* type t.
Handles(e, t) == net[e] # <<>> /\ Head(net[e]).type = t /\ net'[e] = Tail(net[e])

\* C28: an offer handled by a peer connection that already holds a remote
\* description (the relay delivered the offer twice in this round) sets no
\* description again and emits no second answer.
C28_DescriptionsSetOnce ==
    [][\A e \in E :
          Handles(e, "offer") /\ pc[e].gen # 0 /\ pc[e].remote # 0
              => /\ pc'[e] = pc[e]
                 /\ net'[Other(e)] = net[Other(e)]]_vars

\* The session of endpoint e is negotiating and e is the initiator.
NegotiatingInitiator(e) == isInitiator[e] /\ connectionState[e] = "connecting"

\* C29: an answer handled by an endpoint that is not the initiator of a
\* negotiating session leaves the remote description and connectionState
\* as they were.
C29_AnswerOnlyWhenNegotiating ==
    [][\A e \in E :
          Handles(e, "answer") /\ ~NegotiatingInitiator(e)
              => /\ pc'[e].remote = pc[e].remote
                 /\ connectionState'[e] = connectionState[e]]_vars

\* The candidates a step hands to addIceCandidate.
NewAttempts ==
    {call'.attempts[i] : i \in (Len(call.attempts) + 1)..Len(call'.attempts)}

\* C30: while a drain loop of the call hook is running and candidates are
\* still queued (the remote description is set and the loop has not reached
\* its end), nothing but the loop hands a candidate to the peer connection,
\* and no second drain starts.
C30_DrainUninterrupted ==
    [][call.drains > 0 /\ call.iceCandidateQueue # <<>> /\ call'.pc = call.pc
          => /\ \A a \in NewAttempts : a.queued
             /\ call'.drains <= call.drains]_vars

\* A step in which a negotiation call of endpoint e throws: createOffer or
\* setLocalDescription in establishConnection, or setRemoteDescription in
\* handleFileAnswer.
NegotiationError(e) ==
    \/ hist'.threw[e] > hist.threw[e]
    \/ /\ Handles(e, "answer") /\ FromPeer(e, Head(net[e]))
       /\ pc[e].gen # 0 /\ pc[e].sig # "have-local-offer"

DeliveredFrame(c, e) ==
    IF c \in DOMAIN chans /\ chans'[c].rcv[e] = chans[c].rcv[e] + 1
    THEN {chans[c].log[Other(e)][chans[c].rcv[e] + 1]}
    ELSE {}

TornDown(e) == Released(e) /\ ~isInitiator[e]

C35_TimerSparesNewSession ==
    [][\A e \in E :
          CooldownRuns(e) /\ pc[e].gen # 0 /\ pc[e].state # "failed"
              => /\ pc'[e] = pc[e] /\ dataChannel'[e] = dataChannel[e]
                 /\ chans' = chans
                 /\ connectionState'[e] = connectionState[e]
                 /\ isChannelReady'[e] = isChannelReady[e]]_vars

\* The reset effect's timer of endpoint e runs.
ResetRuns(e) == pending[e].reset /\ ~pending'[e].reset

\* C36: the reset that runs 100 ms after otherUserId was set closes no peer
\* connection or channel created for that peer in the meantime (by
\* establishConnection or by an incoming offer) and discards no file queued
\* in the meantime.
C36_ResetSparesNewPeer ==
    [][\A e \in E :
          ResetRuns(e)
              => /\ pc'[e] = pc[e] /\ dataChannel'[e] = dataChannel[e]
                 /\ chans' = chans
                 /\ sendQueue'[e] = sendQueue[e]]_vars

\* C37: with no session teardown taking place, every file for which
\* queueFile returned true is still in the send queue of its endpoint or has
\* a progress record there.
C37_NoSilentLoss ==
    \A k \in DOMAIN files :
        files[k].returned
            => \/ \E i \in 1..Len(sendQueue[files[k].owner]) : sendQueue[files[k].owner][i] = k
               \/ FileIdOf(k) \in DOMAIN transferProgress[files[k].owner]

\* The payload bytes of the chunk frames tagged f in the sequence L.
RECURSIVE ChunkBytesIn(_, _)
ChunkBytesIn(L, f) ==
    IF L = <<>> THEN 0
    ELSE ChunkBytesIn(Tail(L), f)
           + (IF Head(L).kind = "binary" /\ FrameId(Head(L)) = f
              THEN Len(DecodePayload(Head(L).data)) ELSE 0)

\* The payload bytes of file k its owner has sent on the first n channels.
RECURSIVE ChunkBytesUpTo(_, _)
ChunkBytesUpTo(n, k) ==
    IF n = 0 THEN 0
    ELSE ChunkBytesUpTo(n - 1, k) + ChunkBytesIn(chans[n].log[files[k].owner], FileIdOf(k))

ChunkBytes(k) == ChunkBytesUpTo(Len(chans), k)

\* The frames of the given kind that the owner of file k has sent for it,
\* over all channels.
FramesOfKind(k, kind) ==
    UNION { { <<c, i>> : i \in { j \in FramesOf(c, k) :
                                     chans[c].log[files[k].owner][j].kind = kind } } :
            c \in DOMAIN chans }

\* C38: for every file the frames its sender has emitted so far are in
\* protocol order: one file-start at most and before anything else of that
\* id, chunk frames of 1..CHUNK_SIZE payload bytes that sum to the offset
\* the sender reports, one file-end at most and only with the offset at the
\* file size, nothing of that id behind the file-end, and for a zero-byte
\* file the file-end right behind the file-start.
C38_ProtocolOrder ==
    \A k \in DOMAIN files :
        LET e == files[k].owner
            starts == FramesOfKind(k, "file-start")
            ends == FramesOfKind(k, "file-end")
            chunks == FramesOfKind(k, "binary")
        IN  /\ Cardinality(starts) <= 1 /\ Cardinality(ends) <= 1
            /\ (chunks # {} \/ ends # {}) => starts # {}
            /\ \A c \in DOMAIN chans : \A i \in FramesOf(c, k), j \in FramesOf(c, k) :
                   i < j => /\ chans[c].log[e][j].kind # "file-start"
                            /\ chans[c].log[e][i].kind # "file-end"
            /\ \A p \in chunks :
                   Len(DecodePayload(chans[p[1]].log[e][p[2]].data)) \in 1..CHUNK_SIZE
            /\ ChunkBytes(k) = tasks[k].offset
            /\ (HasRecord(k) /\ starts # {}) => SenderRecord(k).transferred = ChunkBytes(k)
            /\ ends # {} => ChunkBytes(k) = files[k].size
            /\ (files[k].size = 0 /\ starts # {})
                   => \A p \in starts : <<p[1], p[2] + 1>> \in ends

\* A file of more than one chunk, the last one shorter than CHUNK_SIZE, has
\* been sent to its file-end.
C38_Witness ==
    \E k \in DOMAIN files :
        /\ files[k].size = SIZE_CAP /\ ChunkCount(k) > 1
        /\ FramesOfKind(k, "file-start") # {}
        /\ FramesOfKind(k, "file-end") # {}
        /\ ChunkBytes(k) = SIZE_CAP

\* C39: isChannelReady is true at an endpoint only while its current data
\* channel exists and is open there.
C39_ReadyMeansOpen ==
    \A e \in E :
        isChannelReady[e] => dataChannel[e] # 0 /\ chans[dataChannel[e]].st[e] = "open"

\* The positions in e's signaling queue of the message a step takes out.
TakenAt(e) ==
    { i \in 1..Len(net[e]) :
          net'[e] = SubSeq(net[e], 1, i - 1) \o SubSeq(net[e], i + 1, Len(net[e])) }

\* A listener of the call hook receives an event of another call: the
\* only steps that take a stray without touching a signaling queue.
StrayCallEvent == budget'.strays < budget.strays /\ net' = net

\* C40: when an endpoint handles an offer, answer or candidate whose userId
\* is not its otherUserId, no peer connection is created, no description
\* set, no candidate applied or counted, nothing emitted, and nothing else
\* of the session changes; and an event whose callId is not the call hook's
\* callId changes nothing of the call hook or of the file transfer.
C40_StraySignalIgnored ==
    [][/\ StrayCallEvent => call' = call /\ fileVars' = fileVars
       /\ \A e \in E :
          (TakenAt(e) # {} /\ \A i \in TakenAt(e) : net[e][i].userId # ids[Other(e)])
              => /\ pc' = pc /\ pcGen' = pcGen
                 /\ connectionState' = connectionState
                 /\ net'[Other(e)] = net[Other(e)]
                 /\ hist' = hist /\ call' = call
                 /\ <<dataChannel, chans, isChannelReady, isInitiator, sendQueue>>'
                        = <<dataChannel, chans, isChannelReady, isInitiator, sendQueue>>]_vars

\* Every stray message and event was handled, the session of the two peers
\* is connected on its first peer connections, and the call hook has set a
\* remote description and applied a candidate.
C40_Witness ==
    /\ budget.strays = 0
    /\ call.pc # 0 /\ call.remote /\ call.attempts # <<>>
    /\ net = [e \in E |-> <<>>]
    /\ \A e \in E : pc[e].gen # 0 /\ pc[e].state = "connected" /\ pc[e].remote # 0
    /\ pcGen = [e \in E |-> 1]

\* C10: a send that is over without its file-end having been sent (the
\* channel failed or closed while the file was partly sent) has left the
\* sender's record in status failed.
C10_BrokenSendEndsFailed ==
    \A k \in DOMAIN files :
        (/\ tasks[k].st = "done"
         /\ HasRecord(k)
         /\ \A L \in Logs : \A i \in DOMAIN L :
               ~(L[i].kind = "file-end" /\ L[i].fileId = FileIdOf(k)))
            => SenderRecord(k).status = "failed"

=============================================================================
